---------------------------- MODULE Spec2Model ----------------------------
(***************************************************************************)
(* A model of the electrocute circuit simulator.                           *)
(*                                                                         *)
(* Six state machines share this module:                                   *)
(*   SpecLE      the CSR linear system LinearEquations                     *)
(*               (src/src/numerical/numbers.rs): from_coordinates and the  *)
(*               operations on the system it builds;                       *)
(*   SpecNumbers the Numbers store (src/src/numbers.rs): new, bake and the *)
(*               operations on the baked CSR;                              *)
(*   Spec        the simulation driver (src/src/main.rs): the builder's    *)
(*               placements (src/src/parser.rs), then per tick             *)
(*               Net::reset, Circuit::stamp (stamp loop, post-stamp loop)  *)
(*               and Net::solve, with the probes of                        *)
(*               Circuit::describe_component;                              *)
(*   SpecSolve   the BiCGSTAB solver (src/src/numerical/solve.rs) called   *)
(*               by LinearEquations::solve;                                *)
(*   SpecBuffer  the typed component store ComponentBuffer                 *)
(*               (src/src/buffer.rs): new, push, iter and iter_mut;        *)
(*   SpecSI      the parser of numbers with an SI suffix, parse_si_number  *)
(*               (src/src/si.rs).                                          *)
(*                                                                         *)
(* Numbers of the program are f64 and pairs of f64 (c64).  They are        *)
(* modelled as exact rationals <<n, d>> (d > 0, lowest terms) and pairs    *)
(* [re, im] of rationals; rounding is not modelled.                        *)
(***************************************************************************)
EXTENDS Integers, Sequences, FiniteSets, TLC

VARIABLES
    leCoords,   \* the coordinates from_coordinates was called with
    le,         \* the LinearEquations value
    leCall,     \* the last operation called on le, with its arguments
    lePanic,    \* "none", or the panic that ended the program
    leOps       \* number of operations applied so far

leVars == <<leCoords, le, leCall, lePanic, leOps>>

VARIABLES
    numbers,    \* the Numbers value
    numCall,    \* the last operation called on it, with its arguments
    numPanic,   \* "none", or the panic that ended the program
    numOps      \* number of operations applied so far

numVars == <<numbers, numCall, numPanic, numOps>>

VARIABLES
    commands,   \* the commands given to the builder
    circuit,    \* Circuit.circuit: component type -> Components
    hashOrder,  \* the iteration order of the HashMap Circuit.circuit
    net,        \* the Net: dim, jacobian (A), currents (b), voltages (x)
    pc,         \* the driver's position: build, reset, stamp, post_stamp,
                \* solve, done or panic
    pos,        \* position of the loops of Circuit::stamp: index into
                \* `values` and byte offset into that type's buffer
    tick,       \* number of completed iterations of the driver's loop
    panic,      \* "none", or the panic that ended the program
    solves,     \* history: number of completed calls of Net::solve
    stampLog,   \* history: the stamps begun in this tick, in order
    postLog,    \* history: the post-stamps begun in this tick, in order
    aHistory    \* history: A at the end of each tick's stamp loop

cirVars == <<commands, circuit, hashOrder, net, pc, pos, tick, panic,
             solves, stampLog, postLog, aHistory>>

VARIABLES
    cb,         \* the ComponentBuffer: type_id, stride and the records pushed
    cbCall,     \* the last operation called on cb, with what it yielded
    cbPanic,    \* "none", or the panic that ended the program
    cbOps       \* number of operations applied so far

cbVars == <<cb, cbCall, cbPanic, cbOps>>

VARIABLES
    siInput,    \* the string given to parse_si_number, a sequence of characters
    siResult,   \* what the call returned, once it has been made
    siDone      \* the call has been made

siVars == <<siInput, siResult, siDone>>

vars == <<leVars, numVars, cirVars, cbVars, siVars>>

(***************************************************************************)
(* f64 as exact rationals.                                                 *)
(***************************************************************************)
Abs(n) == IF n < 0 THEN -n ELSE n

RECURSIVE GCD(_, _)
GCD(a, b) == IF b = 0 THEN a ELSE CHOOSE g \in {GCD(b, m) : m \in {a % b}} : TRUE

RNorm(n, d) ==
    IF n = 0 THEN <<0, 1>>
    ELSE LET g == GCD(Abs(n), Abs(d))
             s == IF d < 0 THEN -1 ELSE 1
         IN  <<(s * n) \div g, (s * d) \div g>>

RInt(n) == <<n, 1>>
RZero == <<0, 1>>
ROne == <<1, 1>>
\* The products are formed over the least common denominator, and in RMul
\* after cancelling across, so that intermediate integers stay small.
RAdd(p, q) ==
    IF p[1] = 0 THEN q
    ELSE IF q[1] = 0 THEN p
    ELSE LET g == GCD(p[2], q[2])
         IN  RNorm(p[1] * (q[2] \div g) + q[1] * (p[2] \div g),
                   (p[2] \div g) * q[2])
RNeg(p) == <<-p[1], p[2]>>
RSub(p, q) == RAdd(p, RNeg(q))
RMul(p, q) ==
    IF p[1] = 0 \/ q[1] = 0 THEN RZero
    ELSE LET g1 == GCD(Abs(p[1]), q[2])
             g2 == GCD(Abs(q[1]), p[2])
         IN  RNorm((p[1] \div g1) * (q[1] \div g2),
                   (p[2] \div g2) * (q[2] \div g1))
\* f64 division: n / 0 is an infinity (written 1/0 or -1/0) and 0 / 0 a NaN
\* (written 0/0); the callers modelled here divide by non-zero numbers.
RDiv(p, q) ==
    IF q[1] = 0 THEN <<(IF p[1] > 0 THEN 1 ELSE IF p[1] < 0 THEN -1 ELSE 0), 0>>
    ELSE RMul(p, IF q[1] < 0 THEN <<-q[2], -q[1]>> ELSE <<q[2], q[1]>>)

(***************************************************************************)
(* c64: a pair of f64 with the arithmetic of complex.rs.                   *)
(***************************************************************************)
C(re, im) == [re |-> re, im |-> im]
CReal(n) == C(RInt(n), RZero)
CZero == C(RZero, RZero)
COne == C(ROne, RZero)
CAdd(u, v) == C(RAdd(u.re, v.re), RAdd(u.im, v.im))
CSub(u, v) == C(RSub(u.re, v.re), RSub(u.im, v.im))
CNeg(u) == C(RNeg(u.re), RNeg(u.im))
CMul(u, v) ==
    C(RSub(RMul(u.re, v.re), RMul(u.im, v.im)),
      RAdd(RMul(u.re, v.im), RMul(u.im, v.re)))
\* a / (a^2 + b^2), formed as 1 / (a + b^2 / a) so that a real or an
\* imaginary divisor is not squared.
RInvPart(a, b) ==
    IF a[1] = 0 THEN RZero ELSE RDiv(ROne, RAdd(a, RDiv(RMul(b, b), a)))
\* (u * conj(v)) / |v|^2.  For v # 0 the quotient is formed as
\* u * (conj(v) / |v|^2), which is the same number.
CDiv(u, v) ==
    IF v.re[1] = 0 /\ v.im[1] = 0
    THEN LET den == RAdd(RMul(v.re, v.re), RMul(v.im, v.im))
         IN  C(RDiv(RAdd(RMul(u.re, v.re), RMul(u.im, v.im)), den),
               RDiv(RSub(RMul(u.im, v.re), RMul(u.re, v.im)), den))
    ELSE CMul(u, C(RInvPart(v.re, v.im), RNeg(RInvPart(v.im, v.re))))

\* A vector of n zeros (vec![c64::ZERO; n]).
ZeroVec(n) == [k \in 1..n |-> CZero]


(***************************************************************************)
(* Bounds of the model.                                                    *)
(***************************************************************************)
\* Row and column indices of the coordinates given to from_coordinates
\* range over 0..MaxIndex.
MaxIndex == 1
\* At most MaxCoords coordinates are given to from_coordinates.
MaxCoords == 2
\* At most MaxOps operations are applied to a linear system.
MaxOps == 3

(***************************************************************************)
(* LinearEquations (CSR), src/src/numerical/numbers.rs.  Indices into a,   *)
(* column_indices and row_pointers are 0-based as in the source; the       *)
(* sequences of the model are 1-based, so entry k is read as s[k + 1].      *)
(***************************************************************************)
Max(a, b) == IF a >= b THEN a ELSE b

\* HashMap::insert: the last value inserted for a key wins.
MapInsert(m, key, v) ==
    [p \in (DOMAIN m) \cup {key} |-> IF p = key THEN v ELSE m[p]]

EmptyMap == [p \in {} |-> 0]

\* The fold of from_coordinates: acc.entry(i).or_insert_with(Vec::new).push(j).
\* The columns given for row i, in the order given, repeats kept.
RECURSIVE RowColumns(_, _)
RowColumns(coords, i) ==
    IF coords = <<>> THEN <<>>
    ELSE LET c == Head(coords)
             rest == RowColumns(Tail(coords), i)
         IN  IF c[1] = i THEN <<c[2]>> \o rest ELSE rest

\* The keys of the BTreeMap, in ascending order (its iteration order).
RECURSIVE AscendingKeys(_)
AscendingKeys(S) ==
    IF S = {} THEN <<>>
    ELSE LET m == CHOOSE x \in S : \A y \in S : x <= y
         IN  <<m>> \o AscendingKeys(S \ {m})

RECURSIVE InsertSorted(_, _)
InsertSorted(s, x) ==
    IF s = <<>> THEN <<x>>
    ELSE IF x <= Head(s) THEN <<x>> \o s
    ELSE <<Head(s)>> \o InsertSorted(Tail(s), x)

\* js.sort_unstable(): ascending, equal elements kept.
RECURSIVE sort_unstable(_)
sort_unstable(js) ==
    IF js = <<>> THEN <<>>
    ELSE InsertSorted(sort_unstable(Tail(js)), Head(js))

\* The inner loop `for j in js` of from_coordinates.
RECURSIVE PushColumns(_, _, _)
PushColumns(i, js, acc) ==
    IF js = <<>> THEN acc
    ELSE LET j == Head(js)
         IN  PushColumns(i, Tail(js),
                 [acc EXCEPT !.max_col = Max(@, j),
                             !.value_map = MapInsert(@, <<i, j>>, acc.nnz),
                             !.column_indices = Append(@, j),
                             !.nnz = @ + 1])

\* The outer loop `for (i, mut js) in compressed` of from_coordinates.
RECURSIVE PushRows(_, _, _)
PushRows(rows, coords, acc) ==
    IF rows = <<>> THEN acc
    ELSE LET i == Head(rows)
             js == sort_unstable(RowColumns(coords, i))
             acc1 == [acc EXCEPT !.max_row = Max(@, i),
                                 !.row_pointers = Append(@, acc.nnz)]
         IN  PushRows(Tail(rows), coords, PushColumns(i, js, acc1))

from_coordinates(coords) ==
    LET compressed == AscendingKeys({coords[k][1] : k \in DOMAIN coords})
        acc0 == [value_map |-> EmptyMap, row_pointers |-> <<>>,
                 column_indices |-> <<>>, nnz |-> 0,
                 max_row |-> 0, max_col |-> 0]
        acc == PushRows(compressed, coords, acc0)
        n_rows == acc.max_row + 1
        n_cols == acc.max_col + 1
    IN  [value_map |-> acc.value_map,
         column_indices |-> acc.column_indices,
         row_pointers |-> Append(acc.row_pointers, acc.nnz),
         a |-> ZeroVec(acc.nnz),
         x |-> ZeroVec(n_cols),
         b |-> ZeroVec(n_rows)]

\* An operation on a system yields the system after it and the panic, if any,
\* that ended it.
Ok(sys) == [le |-> sys, panic |-> "none"]
Panicked(sys, what) == [le |-> sys, panic |-> what]

\* A mutant of add_a: a write to a coordinate that was not reserved is dropped
\* silently.
add_a_silent(sys, i, j, value) ==
    IF <<i, j>> \in DOMAIN sys.value_map
    THEN Ok([sys EXCEPT !.a[sys.value_map[<<i, j>>] + 1] = CAdd(@, value)])
    ELSE Ok(sys)

add_a(sys, i, j, value) ==
    IF <<i, j>> \in DOMAIN sys.value_map
    THEN Ok([sys EXCEPT !.a[sys.value_map[<<i, j>>] + 1] = CAdd(@, value)])
    ELSE Panicked(sys, "UnreservedCoordinate")

set_b(sys, i, value) ==
    IF i + 1 \in DOMAIN sys.b
    THEN Ok([sys EXCEPT !.b[i + 1] = value])
    ELSE Panicked(sys, "IndexOutOfBounds")

add_b(sys, i, value) ==
    IF i + 1 \in DOMAIN sys.b
    THEN Ok([sys EXCEPT !.b[i + 1] = CAdd(@, value)])
    ELSE Panicked(sys, "IndexOutOfBounds")

clear_row(sys, i) ==
    IF i + 1 \in DOMAIN sys.row_pointers /\ i + 2 \in DOMAIN sys.row_pointers
    THEN LET start == sys.row_pointers[i + 1]
             end == sys.row_pointers[i + 2]
         IN  Ok([sys EXCEPT !.a = [k \in DOMAIN sys.a |->
                     IF start <= k - 1 /\ k - 1 < end THEN CZero ELSE sys.a[k]]])
    ELSE Panicked(sys, "IndexOutOfBounds")

(***************************************************************************)
(* Numbers, src/src/numbers.rs: a dense coordinate store (COO) that is      *)
(* baked into a CSR on first use.                                          *)
(***************************************************************************)
\* Numbers::new is called with 0..MaxDimensions dimensions.
MaxDimensions == 3

\* c64::new(f64::NEG_INFINITY, f64::INFINITY): the infinities are n/0.
NULL_COMPLEX_NUMBERS == C(<<-1, 0>>, <<1, 0>>)

Numbers_new(dimensions) ==
    [tag |-> "Coordinates",
     dimensions |-> dimensions,
     data |-> [k \in 1..(dimensions * dimensions) |-> NULL_COMPLEX_NUMBERS]]

\* The loops `for i in 0..n { for j in 0..n {` of bake, over idx = i * n + j.
RECURSIVE BakeFrom(_, _, _, _)
BakeFrom(idx, n, data, acc) ==
    IF idx >= n * n THEN acc
    ELSE LET i == idx \div n
             j == idx % n
             value == data[idx + 1]
         IN  BakeFrom(idx + 1, n, data,
                 IF value # NULL_COMPLEX_NUMBERS
                 THEN [map |-> MapInsert(acc.map, <<i, j>>, Len(acc.a)),
                       row_pointers |-> Append(acc.row_pointers, i),
                       column_indices |-> Append(acc.column_indices, j),
                       a |-> Append(acc.a, value)]
                 ELSE acc)

bake(nums) ==
    IF nums.tag = "Compressed" THEN nums
    ELSE LET n == nums.dimensions
             acc == BakeFrom(0, n, nums.data,
                        [map |-> EmptyMap, row_pointers |-> <<>>,
                         column_indices |-> <<>>, a |-> <<>>])
         IN  [tag |-> "Compressed",
              map |-> acc.map,
              row_pointers |-> acc.row_pointers,
              column_indices |-> acc.column_indices,
              a |-> acc.a,
              x |-> ZeroVec(n),
              b |-> ZeroVec(n)]

\* Vec::clear: the vector keeps no element.
Numbers_reset(nums) ==
    Ok([bake(nums) EXCEPT !.a = <<>>, !.b = <<>>])

Numbers_clear_row_jacobian(nums, j) ==
    LET baked == bake(nums)
    IN  Ok([baked EXCEPT !.a = [k \in DOMAIN baked.a |->
                IF k \in DOMAIN baked.row_pointers /\ baked.row_pointers[k] = j
                THEN CZero ELSE baked.a[k]]])

Numbers_add_a(nums, i, j, value) ==
    LET baked == bake(nums)
    IN  IF <<i, j>> \notin DOMAIN baked.map
        THEN Panicked(baked, "KeyNotFound")
        ELSE IF baked.map[<<i, j>>] + 1 \notin DOMAIN baked.a
        THEN Panicked(baked, "IndexOutOfBounds")
        ELSE Ok([baked EXCEPT !.a[baked.map[<<i, j>>] + 1] = CAdd(@, value)])

Numbers_set_b(nums, i, value) ==
    LET baked == bake(nums)
    IN  IF i + 1 \in DOMAIN baked.b
        THEN Ok([baked EXCEPT !.b[i + 1] = value])
        ELSE Panicked(baked, "IndexOutOfBounds")

Numbers_add_b(nums, i, value) ==
    LET baked == bake(nums)
    IN  IF i + 1 \in DOMAIN baked.b
        THEN Ok([baked EXCEPT !.b[i + 1] = CAdd(@, value)])
        ELSE Panicked(baked, "IndexOutOfBounds")

(***************************************************************************)
(* The simulation driver: src/src/main.rs builds a circuit from the        *)
(* netlist commands (src/src/parser.rs), then for each step calls          *)
(* Net::reset, Circuit::stamp and Net::solve (src/src/net.rs,              *)
(* src/src/circuit.rs).  The component rules are those of                  *)
(* src/src/component/passive.rs and src/src/component/sources.rs.          *)
(***************************************************************************)
\* At most MaxComponents commands are given to the builder.
MaxComponents == 4
\* The driver's loop is followed for at most MaxTicks of its STEPS steps.
MaxTicks == 2

\* const STEPS: usize = 100 (main.rs).
STEPS == 100
\* Net::new(3) (main.rs).
NetDim == 3
\* let dt = 0.01 (main.rs).
DT == <<1, 100>>

(***************************************************************************)
(* Net, src/src/net.rs: a dense dim x dim system.  Row r, column c of the  *)
(* jacobian (0-based in the source) is jacobian[r + 1][c + 1].             *)
(***************************************************************************)
Net_new(dim) ==
    [dim |-> dim,
     jacobian |-> [r \in 1..dim |-> ZeroVec(dim)],
     currents |-> ZeroVec(dim),
     voltages |-> ZeroVec(dim)]

\* A mutant of Net::reset: the jacobian is not cleared.
Net_reset_keeps_jacobian(n) ==
    [n EXCEPT !.currents = ZeroVec(n.dim)]

Net_reset(n) ==
    [n EXCEPT !.jacobian = [r \in 1..n.dim |-> ZeroVec(n.dim)],
              !.currents = ZeroVec(n.dim)]

Net_clear_row_jacobian(n, row) ==
    IF row < n.dim
    THEN Ok([n EXCEPT !.jacobian[row + 1] = ZeroVec(n.dim),
                      !.currents[row + 1] = CZero])
    ELSE Panicked(n, "IndexOutOfBounds")

Net_add_jacobian(n, a, b, value) ==
    IF a < n.dim /\ b < n.dim
    THEN Ok([n EXCEPT !.jacobian[a + 1][b + 1] = CAdd(@, value)])
    ELSE Panicked(n, "IndexOutOfBounds")

Net_set_current(n, row, value) ==
    IF row < n.dim
    THEN Ok([n EXCEPT !.currents[row + 1] = value])
    ELSE Panicked(n, "IndexOutOfBounds")

\* add_b of the component rules: b[i] += value.
Net_add_current(n, row, value) ==
    IF row < n.dim
    THEN Ok([n EXCEPT !.currents[row + 1] = CAdd(@, value)])
    ELSE Panicked(n, "IndexOutOfBounds")

Net_get_voltage_across(n, from, to) ==
    CSub(n.voltages[to + 1], n.voltages[from + 1])

Net_get_current(n, at) == n.currents[at + 1]

\* The matrix M without its first row and without column c.
Minor(M, c) ==
    [r \in 1..(Len(M) - 1) |->
        [k \in 1..(Len(M) - 1) |-> IF k < c THEN M[r + 1][k] ELSE M[r + 1][k + 1]]]

RECURSIVE SumTo(_, _)
\* The sum of term(1) .. term(n).
SumTo(term(_), n) == IF n = 0 THEN CZero ELSE CAdd(SumTo(term, n - 1), term(n))

\* The determinant, by expansion along the first row.
RECURSIVE Det(_)
Det(M) ==
    IF Len(M) = 0 THEN COne
    ELSE IF Len(M) = 1 THEN M[1][1]
    ELSE LET term(c) ==
                 IF M[1][c] = CZero THEN CZero
                 ELSE LET t == CMul(M[1][c], Det(Minor(M, c)))
                      IN  IF c % 2 = 1 THEN t ELSE CNeg(t)
         IN  SumTo(term, Len(M))

\* M with column c replaced by the vector v.
ReplaceColumn(M, c, v) ==
    [r \in 1..Len(M) |-> [k \in 1..Len(M) |-> IF k = c THEN v[r] ELSE M[r][k]]]

\* self.jacobian.clone().lu().solve(&self.currents).unwrap(): the solution of
\* A x = b, and a panic when A is singular (solve returns None).  The solution
\* is computed by Cramer's rule.
Net_solve(n) ==
    LET d == Det(n.jacobian)
    IN  IF d = CZero
        THEN Panicked(n, "SingularMatrix")
        ELSE Ok([n EXCEPT !.voltages = [c \in 1..n.dim |->
                     CDiv(Det(ReplaceColumn(n.jacobian, c, n.currents)), d)]])

\* Sequencing of calls on the net: a panic ends the sequence.
Then(r, op(_)) == IF r.panic # "none" THEN r ELSE op(r.le)

(***************************************************************************)
(* Component types: src/src/component/passive.rs, sources.rs.  The sizes   *)
(* and alignments are those of the #[repr(C)] structs of f64 fields.       *)
(***************************************************************************)
TypeInfo ==
    [Resistor  |-> [component_size |-> 8,  component_align |-> 8,
                    state_size |-> 0,  state_align |-> 1,
                    TERMINAL_COUNT |-> 2, PRIORITY |-> 10],
     Capacitor |-> [component_size |-> 8,  component_align |-> 8,
                    state_size |-> 32, state_align |-> 8,
                    TERMINAL_COUNT |-> 2, PRIORITY |-> 10],
     Inductor  |-> [component_size |-> 8,  component_align |-> 8,
                    state_size |-> 32, state_align |-> 8,
                    TERMINAL_COUNT |-> 2, PRIORITY |-> 10],
     DC1Source |-> [component_size |-> 8,  component_align |-> 8,
                    state_size |-> 0,  state_align |-> 1,
                    TERMINAL_COUNT |-> 1, PRIORITY |-> 25],
     Ground    |-> [component_size |-> 0,  component_align |-> 1,
                    state_size |-> 0,  state_align |-> 1,
                    TERMINAL_COUNT |-> 1, PRIORITY |-> 25],
     AC1Source |-> [component_size |-> 24, component_align |-> 8,
                    state_size |-> 8,  state_align |-> 8,
                    TERMINAL_COUNT |-> 1, PRIORITY |-> 25]]

\* T::State::default(): every field zero; () has no field.
DefaultState(type) ==
    CASE type = "Capacitor" ->
            [v_old_re |-> RZero, v_old_im |-> RZero,
             dv_per_dt_re |-> RZero, dv_per_dt_im |-> RZero]
      [] type = "Inductor" ->
            [i_old_re |-> RZero, i_old_im |-> RZero,
             di_per_dt_re |-> RZero, di_per_dt_im |-> RZero]
      [] type = "AC1Source" -> RZero
      [] OTHER -> <<>>

\* c64::polar(amplitude, 2 pi turns) for a whole number of quarter turns, where
\* the cosine and the sine are 0, 1 or -1.  Other angles have no rational
\* image; they are marked by the NaN 0/0 and do not occur within the bounds.
c64_polar(amplitude, turns) ==
    LET q == RMul(RInt(4), turns)
    IN  IF q[2] # 1 THEN C(<<0, 0>>, <<0, 0>>)
        ELSE CASE q[1] % 4 = 0 -> C(amplitude, RZero)
               [] q[1] % 4 = 1 -> C(RZero, amplitude)
               [] q[1] % 4 = 2 -> C(RNeg(amplitude), RZero)
               [] q[1] % 4 = 3 -> C(RZero, RNeg(amplitude))

\* The 2 x 2 admittance block of the two-terminal components.
AdmittanceBlock(n, n1, n2, y) ==
    Then(Then(Then(Net_add_jacobian(n, n1, n1, y),
                   LAMBDA m : Net_add_jacobian(m, n1, n2, CNeg(y))),
              LAMBDA m : Net_add_jacobian(m, n2, n1, CNeg(y))),
         LAMBDA m : Net_add_jacobian(m, n2, n2, y))

Resistor_stamp(n, this, dt, terminals, state) ==
    LET y == C(RDiv(ROne, this.resistance_ohm), RZero)
    IN  AdmittanceBlock(n, terminals[1], terminals[2], y)

Capacitor_stamp(n, this, dt, terminals, state) ==
    LET g_eq == C(RDiv(this.capacitance_f, dt), RZero)
        v_prev == C(state.v_old_re, state.v_old_im)
        i_hist == CMul(g_eq, v_prev)
    IN  Then(Then(AdmittanceBlock(n, terminals[1], terminals[2], g_eq),
                  LAMBDA m : Net_add_current(m, terminals[1], i_hist)),
             LAMBDA m : Net_add_current(m, terminals[2], CNeg(i_hist)))

Inductor_stamp(n, this, dt, terminals, state) ==
    LET g_eq == C(RDiv(dt, this.inductance_h), RZero)
        i_hist == C(state.i_old_re, state.i_old_im)
    IN  Then(Then(AdmittanceBlock(n, terminals[1], terminals[2], g_eq),
                  LAMBDA m : Net_add_current(m, terminals[1], CNeg(i_hist))),
             LAMBDA m : Net_add_current(m, terminals[2], i_hist))

\* The row-clearing rule of the sources: clear_row(n); A[n, n] += 1;
\* b[n] = voltage.
DirichletRow(n, node, voltage) ==
    Then(Then(Net_clear_row_jacobian(n, node),
              LAMBDA m : Net_add_jacobian(m, node, node, COne)),
         LAMBDA m : Net_set_current(m, node, voltage))

\* A mutant of DC1Source::stamp: the row is not cleared first.
DC1Source_stamp_no_clear(n, this, dt, terminals, state) ==
    Then(Net_add_jacobian(n, terminals[1], terminals[1], COne),
         LAMBDA m : Net_set_current(m, terminals[1], C(this.voltage_volt, RZero)))

DC1Source_stamp(n, this, dt, terminals, state) ==
    DirichletRow(n, terminals[1], C(this.voltage_volt, RZero))

Ground_stamp(n, this, dt, terminals, state) ==
    DirichletRow(n, terminals[1], CZero)

\* angle = 2 pi f t + phase; the phase is 0 within the bounds.
AC1Source_stamp(n, this, dt, terminals, t) ==
    LET turns == RMul(this.frequency_hz, t)
        voltage == c64_polar(this.amplitude_volt, turns)
    IN  DirichletRow(n, terminals[1], voltage)

stamp_rule(type, n, this, dt, terminals, state) ==
    CASE type = "Resistor"  -> Resistor_stamp(n, this, dt, terminals, state)
      [] type = "Capacitor" -> Capacitor_stamp(n, this, dt, terminals, state)
      [] type = "Inductor"  -> Inductor_stamp(n, this, dt, terminals, state)
      [] type = "DC1Source" -> DC1Source_stamp(n, this, dt, terminals, state)
      [] type = "Ground"    -> Ground_stamp(n, this, dt, terminals, state)
      [] type = "AC1Source" -> AC1Source_stamp(n, this, dt, terminals, state)

Capacitor_post_stamp(n, this, dt, terminals, state) ==
    LET v == Net_get_voltage_across(n, terminals[1], terminals[2])
    IN  [v_old_re |-> v.re,
         v_old_im |-> v.im,
         dv_per_dt_re |-> RDiv(RSub(v.re, state.v_old_re), dt),
         dv_per_dt_im |-> RDiv(RSub(v.im, state.v_old_im), dt)]

Inductor_post_stamp(n, this, dt, terminals, state) ==
    LET v == Net_get_voltage_across(n, terminals[1], terminals[2])
        di_dt_re == RDiv(v.re, this.inductance_h)
        di_dt_im == RDiv(v.im, this.inductance_h)
    IN  [i_old_re |-> RAdd(state.i_old_re, RMul(di_dt_re, dt)),
         i_old_im |-> RAdd(state.i_old_im, RMul(di_dt_im, dt)),
         di_per_dt_re |-> di_dt_re,
         di_per_dt_im |-> di_dt_im]

\* A mutant of AC1Source::post_stamp: `*_state = dt` in place of `+=`.
AC1Source_post_stamp_assign(n, this, dt, terminals, t) == dt

AC1Source_post_stamp(n, this, dt, terminals, t) == RAdd(t, dt)

\* The state after the post-stamp rule; the default rule changes nothing.
post_stamp_rule(type, n, this, dt, terminals, state) ==
    CASE type = "Capacitor" -> Capacitor_post_stamp(n, this, dt, terminals, state)
      [] type = "Inductor"  -> Inductor_post_stamp(n, this, dt, terminals, state)
      [] type = "AC1Source" -> AC1Source_post_stamp(n, this, dt, terminals, state)
      [] OTHER -> state

(***************************************************************************)
(* Circuit, src/src/circuit.rs, and CircuitBuilder::build,                 *)
(* src/src/parser.rs.  A type's byte buffer is modelled as the sequence of *)
(* its records (component, state, terminals); record k (1-based) starts at *)
(* byte offset (k - 1) * total_size.                                        *)
(***************************************************************************)
total_size(components) ==
    components.component_size + components.state_size + components.terminals * 4

\* A mutant of put_raw: the bytes of the state are not those of
\* T::State::default(); every field of a state holds 1.
put_raw_state_not_default(circ, type, component, terminals, name) ==
    LET components ==
            IF type \in DOMAIN circ THEN circ[type]
            ELSE [names |-> <<>>,
                  buffer |-> <<>>,
                  component_size |-> TypeInfo[type].component_size,
                  state_size |-> TypeInfo[type].state_size,
                  terminals |-> TypeInfo[type].TERMINAL_COUNT,
                  priority |-> TypeInfo[type].PRIORITY]
        garbage ==
            CASE type = "AC1Source" -> ROne
              [] type \in {"Capacitor", "Inductor"} ->
                    [f \in DOMAIN DefaultState(type) |-> ROne]
              [] OTHER -> <<>>
    IN  MapInsert(circ, type,
            [components EXCEPT
                !.names = Append(@, name),
                !.buffer = Append(@, [component |-> component,
                                      state |-> garbage,
                                      terminals |-> terminals])])

put_raw(circ, type, component, terminals, name) ==
    LET components ==
            IF type \in DOMAIN circ THEN circ[type]
            ELSE [names |-> <<>>,
                  buffer |-> <<>>,
                  component_size |-> TypeInfo[type].component_size,
                  state_size |-> TypeInfo[type].state_size,
                  terminals |-> TypeInfo[type].TERMINAL_COUNT,
                  priority |-> TypeInfo[type].PRIORITY]
        pushed ==
            [components EXCEPT
                !.names = Append(@, name),
                !.buffer = Append(@, [component |-> component,
                                      state |-> DefaultState(type),
                                      terminals |-> terminals])]
    IN  MapInsert(circ, type, pushed)

\* parameters.get(key): the real part of the parameter, or the default 0.
ParameterOr0(parameters, key) ==
    IF key \in DOMAIN parameters THEN parameters[key].re ELSE RZero

\* The match of build: the component type and the component a command makes,
\* or no type for an unknown kind.
ComponentOf(command) ==
    LET p == command.parameters
    IN  CASE command.component = "dc-source-1-terminal" ->
                [type |-> "DC1Source",
                 component |-> [voltage_volt |-> ParameterOr0(p, "V")]]
          [] command.component = "resistor" ->
                [type |-> "Resistor",
                 component |-> [resistance_ohm |-> ParameterOr0(p, "R")]]
          [] command.component = "ground" ->
                [type |-> "Ground", component |-> <<>>]
          [] command.component = "capacitor" ->
                [type |-> "Capacitor",
                 component |-> [capacitance_f |-> ParameterOr0(p, "C")]]
          [] command.component = "inductor" ->
                [type |-> "Inductor",
                 component |-> [inductance_h |-> ParameterOr0(p, "L")]]
          [] command.component = "ac-source-1-terminal" ->
                [type |-> "AC1Source",
                 component |-> [amplitude_volt |-> ParameterOr0(p, "A"),
                                frequency_hz |-> ParameterOr0(p, "f"),
                                phase_rad |-> ParameterOr0(p, "phi")]]
          [] OTHER -> [type |-> "none", component |-> <<>>]

\* A mutant of the loop `for t in terminals`: terminal_map.insert in place of
\* entry(t).or_insert_with, every occurrence of a name takes a fresh index.
RECURSIVE NumberTerminals_insert(_, _)
NumberTerminals_insert(terminals, acc) ==
    IF terminals = <<>> THEN acc
    ELSE NumberTerminals_insert(Tail(terminals),
             [terminal_map |-> MapInsert(acc.terminal_map, Head(terminals),
                                         acc.next_index),
              next_index |-> acc.next_index + 1,
              term_indices |-> Append(acc.term_indices, acc.next_index)])

\* The loop `for t in terminals` of build: terminal_map.entry(t).or_insert_with
\* numbers a name when it is first seen.
RECURSIVE NumberTerminals(_, _)
NumberTerminals(terminals, acc) ==
    IF terminals = <<>> THEN acc
    ELSE LET t == Head(terminals)
             seen == t \in DOMAIN acc.terminal_map
             idx == IF seen THEN acc.terminal_map[t] ELSE acc.next_index
         IN  NumberTerminals(Tail(terminals),
                 [terminal_map |-> IF seen THEN acc.terminal_map
                                   ELSE MapInsert(acc.terminal_map, t, idx),
                  next_index |-> IF seen THEN acc.next_index ELSE acc.next_index + 1,
                  term_indices |-> Append(acc.term_indices, idx)])

\* The loop `for command in &self.commands` of build.
RECURSIVE BuildFrom(_, _)
BuildFrom(cmds, acc) ==
    IF cmds = <<>> \/ acc.panic # "none" THEN acc
    ELSE LET command == Head(cmds)
             numbered == NumberTerminals(command.terminals,
                             [terminal_map |-> acc.terminal_map,
                              next_index |-> acc.next_index,
                              term_indices |-> <<>>])
             made == ComponentOf(command)
             acc1 == [acc EXCEPT !.terminal_map = numbered.terminal_map,
                                 !.next_index = numbered.next_index]
         IN  BuildFrom(Tail(cmds),
                 IF made.type = "none"
                 THEN [acc1 EXCEPT !.panic = "UnknownComponent"]
                 ELSE IF Len(numbered.term_indices) # TypeInfo[made.type].TERMINAL_COUNT
                 THEN [acc1 EXCEPT !.panic = "TerminalCountMismatch"]
                 ELSE [acc1 EXCEPT !.circuit =
                          put_raw(@, made.type, made.component,
                                  numbered.term_indices, command.name)])

build(cmds) ==
    BuildFrom(cmds, [circuit |-> EmptyMap, terminal_map |-> EmptyMap,
                     next_index |-> 0, panic |-> "none"])

\* A mutant of the sort of Circuit::stamp: the types are left in the order the
\* HashMap iterates them.
sort_by_key_unsorted(order, circ) == order

RECURSIVE InsertByPriority(_, _, _)
InsertByPriority(sorted, type, circ) ==
    IF sorted = <<>> THEN <<type>>
    ELSE IF circ[type].priority < circ[Head(sorted)].priority
    THEN <<type>> \o sorted
    ELSE <<Head(sorted)>> \o InsertByPriority(Tail(sorted), type, circ)

RECURSIVE StableSort(_, _, _)
StableSort(order, k, circ) ==
    IF k = 0 THEN <<>>
    ELSE InsertByPriority(StableSort(order, k - 1, circ), order[k], circ)

\* values.sort_by_key(|(_, c)| c.priority): a stable sort of the iteration
\* order by ascending priority.
sort_by_key(order, circ) == StableSort(order, Len(order), circ)

\* The first position at or after (vi, offset) at which the loops of
\* Circuit::stamp find a record; vi is past the end of values when none is left.
RECURSIVE AdvancePos(_, _, _, _)
AdvancePos(values, circ, vi, offset) ==
    IF vi > Len(values) THEN [vi |-> vi, offset |-> 0]
    ELSE LET components == circ[values[vi]]
             size == total_size(components)
         IN  IF size = 0 \/ offset + size > Len(components.buffer) * size
             THEN AdvancePos(values, circ, vi + 1, 0)
             ELSE [vi |-> vi, offset |-> offset]

\* try_from_bytes of the closures of put_raw: the component's bytes and the
\* state's bytes must be aligned for their types.  A buffer's allocation is
\* aligned to 8 bytes or more.
BytesAligned(type, offset) ==
    /\ offset % TypeInfo[type].component_align = 0
    /\ (offset + TypeInfo[type].component_size) % TypeInfo[type].state_align = 0

(***************************************************************************)
(* ComponentBuffer, src/src/buffer.rs: a byte buffer of records            *)
(* ComponentStoredData<C> = (component, state), one per stride bytes.      *)
(* The bytes of a record are modelled by the record pushed and the type it *)
(* was pushed as.                                                          *)
(***************************************************************************)
\* The component types of the buffers of the model: the test's DemoComponent
\* (one u32, state ()) and three types of the component library.
BufferTypes == {"DemoComponent", "Ground", "Resistor", "Capacitor"}

LayoutOf(type) ==
    IF type = "DemoComponent"
    THEN [component_size |-> 4, component_align |-> 4,
          state_size |-> 0, state_align |-> 1]
    ELSE [component_size |-> TypeInfo[type].component_size,
          component_align |-> TypeInfo[type].component_align,
          state_size |-> TypeInfo[type].state_size,
          state_align |-> TypeInfo[type].state_align]

RoundUp(n, a) == ((n + a - 1) \div a) * a

\* align_of and size_of of the #[repr(C)] struct ComponentStoredData<C>.
StoredAlign(type) ==
    Max(LayoutOf(type).component_align, LayoutOf(type).state_align)
StoredSize(type) ==
    RoundUp(RoundUp(LayoutOf(type).component_size, LayoutOf(type).state_align)
                + LayoutOf(type).state_size,
            StoredAlign(type))

\* The payload of a component, and Default::default() of a state.
ComponentValues == {0, 1}
BufferDefaultState(type) ==
    IF type = "DemoComponent" THEN <<>> ELSE DefaultState(type)

\* `aligned` says whether the allocation of the Vec<u8> starts at an address
\* that is a multiple of the record's alignment: the allocator decides.
ComponentBuffer_new(type, aligned) ==
    [records |-> <<>>,
     stride |-> RoundUp(Max(StoredSize(type), 1), StoredAlign(type)),
     type_id |-> type,
     aligned |-> aligned]

\* push::<C>: no check of C against type_id; the record and its padding are
\* appended, which may move the allocation.
ComponentBuffer_push(buf, type, component, aligned) ==
    IF StoredSize(type) <= buf.stride
    THEN [cb |-> [buf EXCEPT !.records = Append(@,
                        [pushed_as |-> type, component |-> component,
                         state |-> BufferDefaultState(type)]),
                    !.aligned = aligned],
          items |-> <<>>, panic |-> "none"]
    ELSE [cb |-> buf, items |-> <<>>, panic |-> "AssertionFailed"]

\* buffer.len() / stride: every push appends stride bytes.
ComponentBuffer_len(buf) == Len(buf.records)

\* What an iteration of the store yields.  (A record pushed as another type
\* is read back through the bytes of that type; the claims checked here
\* concern stores whose records were pushed as the store's type.)
ItemsOf(buf) ==
    [k \in 1..Len(buf.records) |->
        <<buf.records[k].component, buf.records[k].state>>]

\* iter::<C>() run to its end.  next() returns None at once for a type other
\* than type_id; otherwise it hands the size_of::<C>() bytes at idx * stride
\* to bytemuck::from_bytes::<ComponentStoredData<C>>, which panics unless the
\* slice has the size of the target and is aligned for it.
ComponentIterator(buf, type) ==
    IF type # buf.type_id \/ ComponentBuffer_len(buf) = 0
    THEN [cb |-> buf, items |-> <<>>, panic |-> "none"]
    ELSE IF LayoutOf(type).component_size # StoredSize(type)
    THEN [cb |-> buf, items |-> <<>>, panic |-> "SizeMismatch"]
    ELSE IF StoredAlign(type) > 1 /\ ~buf.aligned
    THEN [cb |-> buf, items |-> <<>>, panic |-> "AlignmentMismatch"]
    ELSE [cb |-> buf, items |-> ItemsOf(buf), panic |-> "none"]

\* iter_mut::<C>() run to its end by a loop that writes `component` into
\* every component it is given.  The records are reached through a raw
\* pointer cast, which nothing checks: on a misaligned buffer the behaviour
\* is undefined, `crash` says whether this run dies of it.
ComponentIteratorMut(buf, type, component, crash) ==
    IF type # buf.type_id \/ ComponentBuffer_len(buf) = 0
    THEN [cb |-> buf, items |-> <<>>, panic |-> "none"]
    ELSE IF StoredAlign(type) > 1 /\ ~buf.aligned /\ crash
    THEN [cb |-> buf, items |-> <<>>, panic |-> "MisalignedPointer"]
    ELSE [cb |-> [buf EXCEPT !.records =
                    [k \in 1..Len(buf.records) |->
                        [buf.records[k] EXCEPT !.component = component]]],
          items |-> ItemsOf(buf), panic |-> "none"]

(***************************************************************************)
(* The states in which a machine of this module rests while another runs.  *)
(***************************************************************************)
NoCall == [op |-> "none"]

LEIdle ==
    /\ leCoords = <<>>
    /\ le = from_coordinates(<<>>)
    /\ leCall = NoCall
    /\ lePanic = "none"
    /\ leOps = 0

NumIdle ==
    /\ numbers = Numbers_new(0)
    /\ numCall = NoCall
    /\ numPanic = "none"
    /\ numOps = 0

CBIdle ==
    /\ cb = ComponentBuffer_new("DemoComponent", TRUE)
    /\ cbCall = NoCall
    /\ cbPanic = "none"
    /\ cbOps = 0

SIIdle ==
    /\ siInput = <<>>
    /\ siResult = NoCall
    /\ siDone = FALSE

(***************************************************************************)
(* Spec: the driver of src/src/main.rs over a bounded set of netlists.     *)
(***************************************************************************)
\* The commands the netlists of the model are made of; a netlist is a
\* selection of at most MaxComponents of them, in this order.  Capacitances
\* and inductances are chosen so that C / dt and dt / L are small numbers, and
\* the AC frequency so that every tick advances the phase by a quarter turn.
MenuCommands ==
    << [component |-> "ground", name |-> "G", terminals |-> <<"gnd">>,
        parameters |-> EmptyMap],
       [component |-> "dc-source-1-terminal", name |-> "V1", terminals |-> <<"a">>,
        parameters |-> [V |-> CReal(5)]],
       [component |-> "resistor", name |-> "R1", terminals |-> <<"a", "b">>,
        parameters |-> [R |-> CReal(2)]],
       [component |-> "capacitor", name |-> "C1", terminals |-> <<"b", "gnd">>,
        parameters |-> [C |-> C(<<1, 50>>, RZero)]],
       [component |-> "inductor", name |-> "L1", terminals |-> <<"b", "gnd">>,
        parameters |-> [L |-> C(<<1, 50>>, RZero)]],
       [component |-> "ac-source-1-terminal", name |-> "AC1", terminals |-> <<"a">>,
        parameters |-> [A |-> CReal(1), f |-> CReal(25), phi |-> CReal(0)]],
       [component |-> "dc-source-1-terminal", name |-> "V2", terminals |-> <<"b">>,
        parameters |-> [V |-> CReal(3)]],
       [component |-> "resistor", name |-> "R2", terminals |-> <<"b", "gnd">>,
        parameters |-> [R |-> CReal(1)]],
       [component |-> "resistor", name |-> "R3", terminals |-> <<"c", "gnd">>,
        parameters |-> [R |-> CReal(1)]] >>

\* The commands of the menu at the positions S, in the menu's order.
RECURSIVE Selection(_, _)
Selection(S, k) ==
    IF k > Len(MenuCommands) THEN <<>>
    ELSE (IF k \in S THEN <<MenuCommands[k]>> ELSE <<>>) \o Selection(S, k + 1)

\* Two parallel resistors to ground with a DC source: ground at gnd, 5 V at a,
\* 500 Ohm and 1000 Ohm between a and gnd.
ParallelResistors ==
    << [component |-> "ground", name |-> "G", terminals |-> <<"gnd">>,
        parameters |-> EmptyMap],
       [component |-> "dc-source-1-terminal", name |-> "V1", terminals |-> <<"a">>,
        parameters |-> [V |-> CReal(5)]],
       [component |-> "resistor", name |-> "RA", terminals |-> <<"a", "gnd">>,
        parameters |-> [R |-> CReal(500)]],
       [component |-> "resistor", name |-> "RB", terminals |-> <<"a", "gnd">>,
        parameters |-> [R |-> CReal(1000)]] >>

Netlists ==
    {Selection(S, 1) : S \in {T \in SUBSET (1..Len(MenuCommands)) :
                                  Cardinality(T) <= MaxComponents}}
        \cup {ParallelResistors}

\* The orders in which a HashMap with the keys S may iterate them.
Orders(S) ==
    {s \in [1..Cardinality(S) -> S] : \A x \in S : \E k \in DOMAIN s : s[k] = x}

NoPos == [vi |-> 0, offset |-> 0]

CirInit ==
    /\ commands \in Netlists
    /\ circuit = EmptyMap
    /\ hashOrder = <<>>
    /\ net = Net_new(NetDim)
    /\ pc = "build"
    /\ pos = NoPos
    /\ tick = 0
    /\ panic = "none"
    /\ solves = 0
    /\ stampLog = <<>>
    /\ postLog = <<>>
    /\ aHistory = <<>>

\* The state of the driver while another machine of this module runs.
CirIdle ==
    /\ commands = <<>>
    /\ circuit = EmptyMap
    /\ hashOrder = <<>>
    /\ net = Net_new(0)
    /\ pc = "idle"
    /\ pos = NoPos
    /\ tick = 0
    /\ panic = "none"
    /\ solves = 0
    /\ stampLog = <<>>
    /\ postLog = <<>>
    /\ aHistory = <<>>

\* The types in the order Circuit::stamp visits them.
Values == sort_by_key(hashOrder, circuit)

\* Where the driver is once a loop of Circuit::stamp has reached (vi, offset):
\* at the next record of that loop, at the first record of the post-stamp loop,
\* or back in main at the call of solve.
StampLoopAt(vi, offset) ==
    LET p == AdvancePos(Values, circuit, vi, offset)
        q == AdvancePos(Values, circuit, 1, 0)
    IN  IF p.vi <= Len(Values) THEN [pc |-> "stamp", pos |-> p]
        ELSE IF q.vi <= Len(Values) THEN [pc |-> "post_stamp", pos |-> q]
        ELSE [pc |-> "solve", pos |-> NoPos]

PostStampLoopAt(vi, offset) ==
    LET p == AdvancePos(Values, circuit, vi, offset)
    IN  IF p.vi <= Len(Values) THEN [pc |-> "post_stamp", pos |-> p]
        ELSE [pc |-> "solve", pos |-> NoPos]

\* builder.build(): the whole of CircuitBuilder::build.
Build ==
    /\ pc = "build"
    /\ LET built == build(commands)
       IN  /\ circuit' = built.circuit
           /\ hashOrder' \in Orders(DOMAIN built.circuit)
           /\ panic' = built.panic
           /\ pc' = IF built.panic = "none" THEN "reset" ELSE "panic"
    /\ UNCHANGED <<commands, net, pos, tick, solves, stampLog, postLog, aHistory>>
    /\ UNCHANGED <<leVars, numVars, cbVars, siVars>>

\* net.reset(), then the call of circuit.stamp up to its first record.
Reset ==
    /\ pc = "reset"
    /\ tick < MaxTicks
    /\ net' = Net_reset(net)
    /\ stampLog' = <<>>
    /\ postLog' = <<>>
    /\ LET at == StampLoopAt(1, 0)
       IN  /\ pc' = at.pc
           /\ pos' = at.pos
           /\ aHistory' = IF at.pc = "stamp" THEN aHistory
                          ELSE Append(aHistory, net'.jacobian)
    /\ UNCHANGED <<commands, circuit, hashOrder, tick, panic, solves>>
    /\ UNCHANGED <<leVars, numVars, cbVars, siVars>>

\* One pass of the loop "Ordinary stamping" of Circuit::stamp: stamp_fn on the
\* record at pos.
Stamp ==
    /\ pc = "stamp"
    /\ LET type == Values[pos.vi]
           components == circuit[type]
           size == total_size(components)
           k == (pos.offset \div size) + 1
           record == components.buffer[k]
           r == IF BytesAligned(type, pos.offset)
                THEN stamp_rule(type, net, record.component, DT,
                                record.terminals, record.state)
                ELSE Panicked(net, "PodCastError")
           at == StampLoopAt(pos.vi, pos.offset + size)
       IN  /\ stampLog' = Append(stampLog, <<type, k>>)
           /\ net' = r.le
           /\ panic' = r.panic
           /\ IF r.panic = "none"
              THEN /\ pc' = at.pc
                   /\ pos' = at.pos
                   /\ aHistory' = IF at.pc = "stamp" THEN aHistory
                                  ELSE Append(aHistory, net'.jacobian)
              ELSE /\ pc' = "panic"
                   /\ UNCHANGED <<pos, aHistory>>
    /\ UNCHANGED <<commands, circuit, hashOrder, tick, solves, postLog>>
    /\ UNCHANGED <<leVars, numVars, cbVars, siVars>>

\* One pass of the loop "post stamp" of Circuit::stamp: post_stamp_fn on the
\* record at pos.
PostStamp ==
    /\ pc = "post_stamp"
    /\ LET type == Values[pos.vi]
           components == circuit[type]
           size == total_size(components)
           k == (pos.offset \div size) + 1
           record == components.buffer[k]
           at == PostStampLoopAt(pos.vi, pos.offset + size)
       IN  /\ postLog' = Append(postLog, <<type, k>>)
           /\ IF BytesAligned(type, pos.offset)
              THEN /\ circuit' = [circuit EXCEPT ![type].buffer[k].state =
                          post_stamp_rule(type, net, record.component, DT,
                                          record.terminals, record.state)]
                   /\ pc' = at.pc
                   /\ pos' = at.pos
                   /\ UNCHANGED panic
              ELSE /\ panic' = "PodCastError"
                   /\ pc' = "panic"
                   /\ UNCHANGED <<circuit, pos>>
    /\ UNCHANGED <<commands, hashOrder, net, tick, solves, stampLog, aHistory>>
    /\ UNCHANGED <<leVars, numVars, cbVars, siVars>>

\* net.solve(), then the end of the loop body of main.
Solve ==
    /\ pc = "solve"
    /\ LET r == Net_solve(net)
       IN  /\ net' = r.le
           /\ panic' = r.panic
           /\ IF r.panic = "none"
              THEN /\ solves' = solves + 1
                   /\ tick' = tick + 1
                   /\ pc' = IF tick + 1 < STEPS THEN "reset" ELSE "done"
              ELSE /\ pc' = "panic"
                   /\ UNCHANGED <<solves, tick>>
    /\ UNCHANGED <<commands, circuit, hashOrder, pos, stampLog, postLog, aHistory>>
    /\ UNCHANGED <<leVars, numVars, cbVars, siVars>>

Next == Build \/ Reset \/ Stamp \/ PostStamp \/ Solve

Init == CirInit /\ LEIdle /\ NumIdle /\ CBIdle /\ SIIdle

Spec == Init /\ [][Next]_vars

(***************************************************************************)
(* SpecLE: a system is built from some coordinates, then operations are    *)
(* applied to it until one panics.                                         *)
(***************************************************************************)
Indices == 0..MaxIndex
Coordinates == Indices \X Indices
CoordinateLists == UNION {[1..n -> Coordinates] : n \in 0..MaxCoords}
\* The values written by the operations of SpecLE.
LEValues == {C(RInt(1), RInt(2))}

LEInit ==
    /\ leCoords \in CoordinateLists
    /\ le = from_coordinates(leCoords)
    /\ leCall = NoCall
    /\ lePanic = "none"
    /\ leOps = 0

LEStep(call, r) ==
    /\ le' = r.le
    /\ lePanic' = r.panic
    /\ leCall' = call
    /\ leOps' = leOps + 1
    /\ UNCHANGED leCoords
    /\ UNCHANGED <<numVars, cirVars, cbVars, siVars>>

LECanStep == lePanic = "none" /\ leOps < MaxOps

LEAddA ==
    /\ LECanStep
    /\ \E i \in Indices, j \in Indices, z \in LEValues :
          LEStep([op |-> "add_a", i |-> i, j |-> j, z |-> z], add_a(le, i, j, z))

LESetB ==
    /\ LECanStep
    /\ \E i \in Indices, z \in LEValues :
          LEStep([op |-> "set_b", i |-> i, z |-> z], set_b(le, i, z))

LEAddB ==
    /\ LECanStep
    /\ \E i \in Indices, z \in LEValues :
          LEStep([op |-> "add_b", i |-> i, z |-> z], add_b(le, i, z))

LEClearRow ==
    /\ LECanStep
    /\ \E i \in Indices :
          LEStep([op |-> "clear_row", i |-> i], clear_row(le, i))

LENext == LEAddA \/ LESetB \/ LEAddB \/ LEClearRow

InitLE == LEInit /\ NumIdle /\ CirIdle /\ CBIdle /\ SIIdle

SpecLE == InitLE /\ [][LENext]_vars

(***************************************************************************)
(* SpecNumbers: a store is created, then operations are applied to it      *)
(* until one panics.                                                       *)
(***************************************************************************)
NumIndices == 0..(MaxDimensions - 1)

NumInit ==
    /\ \E d \in 0..MaxDimensions : numbers = Numbers_new(d)
    /\ numCall = NoCall
    /\ numPanic = "none"
    /\ numOps = 0

NumStep(call, r) ==
    /\ numbers' = r.le
    /\ numPanic' = r.panic
    /\ numCall' = call
    /\ numOps' = numOps + 1
    /\ UNCHANGED <<leVars, cirVars, cbVars, siVars>>

NumCanStep == numPanic = "none" /\ numOps < MaxOps

NumReset ==
    /\ NumCanStep
    /\ NumStep([op |-> "reset"], Numbers_reset(numbers))

NumClearRow ==
    /\ NumCanStep
    /\ \E j \in NumIndices :
          NumStep([op |-> "clear_row_jacobian", i |-> j],
                  Numbers_clear_row_jacobian(numbers, j))

NumAddA ==
    /\ NumCanStep
    /\ \E i \in NumIndices, j \in NumIndices, z \in LEValues :
          NumStep([op |-> "add_a", i |-> i, j |-> j, z |-> z],
                  Numbers_add_a(numbers, i, j, z))

NumSetB ==
    /\ NumCanStep
    /\ \E i \in NumIndices, z \in LEValues :
          NumStep([op |-> "set_b", i |-> i, z |-> z], Numbers_set_b(numbers, i, z))

NumAddB ==
    /\ NumCanStep
    /\ \E i \in NumIndices, z \in LEValues :
          NumStep([op |-> "add_b", i |-> i, z |-> z], Numbers_add_b(numbers, i, z))

NumNext == NumReset \/ NumClearRow \/ NumAddA \/ NumSetB \/ NumAddB

InitNumbers == NumInit /\ LEIdle /\ CirIdle /\ CBIdle /\ SIIdle

SpecNumbers == InitNumbers /\ [][NumNext]_vars

(***************************************************************************)
(* Properties of from_coordinates and add_a, checked under SpecLE.         *)
(***************************************************************************)
\* The dimension the coordinates call for: max(row, col) + 1 over all of them.
RECURSIVE MaxOfCoords(_)
MaxOfCoords(coords) ==
    IF coords = <<>> THEN 0
    ELSE Max(Max(Head(coords)[1], Head(coords)[2]), MaxOfCoords(Tail(coords)))

DimensionOf(coords) == MaxOfCoords(coords) + 1

\* The storage indices of row i as row_pointers delimits them.
RowRange(sys, i) ==
    IF i + 2 \in DOMAIN sys.row_pointers
    THEN {k \in 0..(Len(sys.column_indices) - 1) :
            sys.row_pointers[i + 1] <= k /\ k < sys.row_pointers[i + 2]}
    ELSE {}

\* C6: for every coordinate (i, j) given to from_coordinates, the index
\* k = coord_map[(i, j)] has column_indices[k] = j and lies in row i's range
\* row_pointers[i] <= k < row_pointers[i+1], also when a row below the maximum
\* row has no coordinate.
C6_CoordMapPointsIntoRow ==
    \A n \in DOMAIN leCoords :
        LET i == leCoords[n][1]
            j == leCoords[n][2]
        IN  /\ <<i, j>> \in DOMAIN le.value_map
            /\ le.column_indices[le.value_map[<<i, j>>] + 1] = j
            /\ le.value_map[<<i, j>>] \in RowRange(le, i)

\* C7: the column indices stored within each row are strictly increasing, also
\* when a coordinate is given more than once, so that every distinct coordinate
\* has exactly one storage index.
C7_ColumnsStrictlyIncreasing ==
    /\ \A r \in 0..(Len(le.row_pointers) - 2) :
          \A k \in RowRange(le, r) :
              (k + 1) \in RowRange(le, r)
                  => le.column_indices[k + 1] < le.column_indices[k + 2]
    /\ Len(le.column_indices)
          = Cardinality({leCoords[n] : n \in DOMAIN leCoords})

\* C8: row_pointers has N + 1 entries, is non-decreasing, starts at 0 and ends
\* at |column_indices| = |a| = nnz, N being the dimension of the system.
C8_RowPointersShape ==
    leCoords # <<>> =>
        /\ Len(le.row_pointers) = DimensionOf(leCoords) + 1
        /\ \A k \in 1..(Len(le.row_pointers) - 1) :
              le.row_pointers[k] <= le.row_pointers[k + 1]
        /\ le.row_pointers[1] = 0
        /\ le.row_pointers[Len(le.row_pointers)] = Len(le.column_indices)
        /\ Len(le.column_indices) = Len(le.a)

\* C9: x and b both have length N = max(row, col) + 1 over the coordinates
\* given: the system is square.
C9_SquareSystem ==
    leCoords # <<>> =>
        /\ Len(le.x) = DimensionOf(leCoords)
        /\ Len(le.b) = DimensionOf(leCoords)

\* C10: add_a(i, j, z) on a coordinate the system was not built from fails
\* with UnreservedCoordinate and changes no stored value of a, b or x.
C10_AddAUnreservedFails ==
    [][(/\ leOps' = leOps + 1
        /\ leCall'.op = "add_a"
        /\ <<leCall'.i, leCall'.j>> \notin DOMAIN le.value_map)
          => (/\ lePanic' = "UnreservedCoordinate"
              /\ le'.a = le.a
              /\ le'.b = le.b
              /\ le'.x = le.x)]_leVars

\* add_a has failed on an unreserved coordinate of a system that holds a
\* non-zero value.
C10_Witness ==
    /\ lePanic = "UnreservedCoordinate"
    /\ leCall.op = "add_a"
    /\ <<leCall.i, leCall.j>> \notin DOMAIN le.value_map
    /\ \E k \in DOMAIN le.a : le.a[k] # CZero

\* C5: reset() sets every stored value of a and every entry of b to zero and
\* leaves the sparsity pattern (column_indices, row_pointers, coord_map and
\* the lengths of a and b) and every entry of x unchanged.
C5_ResetZeroesValuesKeepsPattern ==
    [][(numOps' = numOps + 1 /\ numCall'.op = "reset")
          => LET before == bake(numbers)
             IN  /\ Len(numbers'.a) = Len(before.a)
                 /\ Len(numbers'.b) = Len(before.b)
                 /\ \A k \in DOMAIN numbers'.a : numbers'.a[k] = CZero
                 /\ \A k \in DOMAIN numbers'.b : numbers'.b[k] = CZero
                 /\ numbers'.column_indices = before.column_indices
                 /\ numbers'.row_pointers = before.row_pointers
                 /\ numbers'.map = before.map
                 /\ numbers'.x = before.x]_numVars

(***************************************************************************)
(* Properties of the tick, checked under Spec.                             *)
(***************************************************************************)
\* The placed components: type and position (1-based) in the type's buffer.
Placed ==
    {<<type, k>> : type \in DOMAIN circuit, k \in 1..Len(MenuCommands)}
        \cap UNION {{<<type, k>> : k \in DOMAIN circuit[type].buffer} :
                        type \in DOMAIN circuit}

RecordOf(c) == circuit[c[1]].buffer[c[2]]

\* The placed components of the given types with a terminal at node n.
Attached(n, types) ==
    {c \in Placed :
        /\ c[1] \in types
        /\ \E t \in DOMAIN RecordOf(c).terminals : RecordOf(c).terminals[t] = n}

\* The stamp loop of the current tick has run to its end.
StampPhaseEnded == pc \in {"post_stamp", "solve"}

\* C1: in every tick the solve of that tick completes before any post-stamp
\* of that tick begins: a post-stamp of tick k reads the x of the k-th solve.
C1_SolveBeforePostStamp ==
    (pc \in {"post_stamp", "solve"} /\ postLog # <<>>) => solves = tick + 1

\* C2: within the stamp phase of a tick, every stamp of a component whose type
\* has a lower PRIORITY has completed before any stamp of a component whose
\* type has a higher PRIORITY begins.
C2_StampsInPriorityOrder ==
    \A q \in DOMAIN stampLog :
        \A c \in Placed :
            TypeInfo[c[1]].PRIORITY < TypeInfo[stampLog[q][1]].PRIORITY
                => \E p \in 1..(q - 1) : stampLog[p] = c

\* The stamp phase has ended for a circuit with types of both priorities whose
\* HashMap iterates a priority-25 type before a priority-10 type.
C2_Witness ==
    /\ StampPhaseEnded
    /\ \E p \in DOMAIN stampLog, q \in DOMAIN stampLog :
          /\ p < q
          /\ TypeInfo[stampLog[p][1]].PRIORITY < TypeInfo[stampLog[q][1]].PRIORITY
    /\ \E i \in DOMAIN hashOrder, j \in DOMAIN hashOrder :
          /\ i < j
          /\ TypeInfo[hashOrder[i]].PRIORITY > TypeInfo[hashOrder[j]].PRIORITY

\* Row n of A is 1 on the diagonal and 0 elsewhere, and b[n] is the voltage.
DirichletRowHolds(n, voltage) ==
    /\ \A c \in 0..(net.dim - 1) :
          net.jacobian[n + 1][c + 1] = (IF c = n THEN COne ELSE CZero)
    /\ net.currents[n + 1] = voltage

SourceVoltage(c) ==
    IF c[1] = "Ground" THEN CZero ELSE C(RecordOf(c).component.voltage_volt, RZero)

\* C3 as stated: at the end of the stamp phase of every tick, for every node n
\* to which exactly one ground or DC source is attached, row n of A holds 1 on
\* the diagonal and 0 in every other entry, and b[n] is that source's voltage
\* (0 for ground), whatever else is attached to n.
C3_SourceRowAsStated ==
    StampPhaseEnded =>
        \A n \in 0..(net.dim - 1) :
            LET sources == Attached(n, {"Ground", "DC1Source"})
            IN  Cardinality(sources) = 1
                    => \A c \in sources : DirichletRowHolds(n, SourceVoltage(c))

\* C3 as amended: the same for every node n to which exactly one ground or DC
\* source and no AC source is attached, whatever resistors, capacitors or
\* inductors are also attached to n.
C3_SourceRow ==
    StampPhaseEnded =>
        \A n \in 0..(net.dim - 1) :
            LET sources == Attached(n, {"Ground", "DC1Source"})
            IN  (Cardinality(sources) = 1 /\ Attached(n, {"AC1Source"}) = {})
                    => \A c \in sources : DirichletRowHolds(n, SourceVoltage(c))

\* The stamp phase has ended for a circuit in which a node carries one DC
\* source of a non-zero voltage, a resistor and no other source.
C3_Witness ==
    /\ StampPhaseEnded
    /\ \E n \in 0..(net.dim - 1) :
          /\ Cardinality(Attached(n, {"Ground", "DC1Source"})) = 1
          /\ \E c \in Attached(n, {"DC1Source"}) : SourceVoltage(c) # CZero
          /\ Attached(n, {"AC1Source"}) = {}
          /\ Attached(n, {"Resistor"}) # {}
          /\ Attached(n, {"Capacitor", "Inductor"}) = {}

\* C4: the values of A at the end of the stamp phase of tick k + 1 equal those
\* at the end of the stamp phase of tick k: they are not accumulated.
C4_MatrixNotAccumulated ==
    \A k \in 1..(Len(aHistory) - 1) : aHistory[k + 1] = aHistory[k]

\* The stamp phase of a second tick has ended for a circuit with a resistor
\* and a capacitor whose state the first tick has changed.
C4_Witness ==
    /\ Len(aHistory) >= 2
    /\ Attached(0, {"Resistor"}) \cup Attached(1, {"Resistor"}) # {}
    /\ \E c \in Placed :
          /\ c[1] = "Capacitor"
          /\ RecordOf(c).state # DefaultState("Capacitor")

(***************************************************************************)
(* Properties of clear_row, checked under SpecLE.                          *)
(***************************************************************************)
\* C11: clear_row(i), for a row i < N of a system built from any coordinates,
\* sets to zero every stored value whose coordinate is in row i and leaves
\* unchanged every stored value of every other row, all of b and all of x.
C11_ClearRowZeroesOnlyRow ==
    [][(/\ leOps' = leOps + 1
        /\ leCall'.op = "clear_row"
        /\ leCoords # <<>>
        /\ leCall'.i < DimensionOf(leCoords))
          => (/\ lePanic' = "none"
              /\ Len(le'.a) = Len(le.a)
              /\ \A p \in DOMAIN le.value_map :
                    le'.a[le.value_map[p] + 1]
                        = (IF p[1] = leCall'.i THEN CZero
                                               ELSE le.a[le.value_map[p] + 1])
              /\ le'.b = le.b
              /\ le'.x = le.x)]_leVars

(***************************************************************************)
(* The BiCGSTAB solver, src/src/numerical/solve.rs.  A vector is a         *)
(* sequence of c64; a slice index out of bounds is a panic.                *)
(***************************************************************************)
MaxIters == 2
\* LinearEquations::solve passes max_iters = 100 and tol = 1e-6.
DefaultMaxIters == 100
DefaultTolInverse == 1000000

CConj(u) == C(u.re, RNeg(u.im))

Min(a, b) == IF a <= b THEN a ELSE b

\* Sum of f(1) .. f(n) for a function f on 1..n, added in index order.
RECURSIVE CSum(_, _)
CSum(f, n) == IF n = 0 THEN CZero ELSE CAdd(CSum(f, n - 1), f[n])

\* The vector <<f[1], ..., f[n]>>, every entry computed once.
RECURSIVE ToVec(_, _)
ToVec(f, n) == IF n = 0 THEN <<>> ELSE Append(ToVec(f, n - 1), f[n])

\* zip stops at the end of the shorter slice.
vec_sub(a, b) ==
    ToVec([k \in 1..Min(Len(a), Len(b)) |-> CSub(a[k], b[k])],
          Min(Len(a), Len(b)))
vec_add(a, b) ==
    ToVec([k \in 1..Min(Len(a), Len(b)) |-> CAdd(a[k], b[k])],
          Min(Len(a), Len(b)))
vec_dot(a, b) ==
    CSum([k \in 1..Min(Len(a), Len(b)) |-> CMul(a[k], CConj(b[k]))],
         Min(Len(a), Len(b)))
vec_mul(a, k) == ToVec([n \in 1..Len(a) |-> CMul(k, a[n])], Len(a))
vec_add_in_place(a, b) ==
    ToVec([k \in 1..Len(a) |-> IF k <= Len(b) THEN CAdd(a[k], b[k]) ELSE a[k]],
          Len(a))

\* The square of vec_norm(a): the sum of re^2 + im^2, a rational.
RECURSIVE NormSquared(_)
NormSquared(a) ==
    IF a = <<>> THEN RZero
    ELSE RAdd(RAdd(RMul(Head(a).re, Head(a).re), RMul(Head(a).im, Head(a).im)),
              NormSquared(Tail(a)))

\* vec_norm(a) < tol for tol = 1 / tolInverse, compared on the squares and
\* without forming tolInverse^2: n/d < 1/T^2 iff T <= ((d - 1) \div n) \div T.
NormBelow(a, tolInverse) ==
    \E q \in {NormSquared(a)} :
        q[1] = 0 \/ tolInverse <= ((q[2] - 1) \div q[1]) \div tolInverse

\* z.norm() < small for small = 1e-30.  Every non-zero rational of the model
\* has a numerator >= 1 and a denominator < 2^31, so its norm is above small:
\* the test passes exactly for zero.
BelowSmall(z) == z = CZero

\* sparse_matmul indexes vector[column_indices[j]] for every stored entry j.
MatmulInBounds(sys, vector) ==
    /\ Len(sys.row_pointers) >= 1
    /\ \A i \in 1..(Len(sys.row_pointers) - 1) :
          \A j \in sys.row_pointers[i]..(sys.row_pointers[i + 1] - 1) :
              /\ j + 1 \in DOMAIN sys.a
              /\ j + 1 \in DOMAIN sys.column_indices
              /\ sys.column_indices[j + 1] + 1 \in DOMAIN vector

sparse_matmul(sys, vector) ==
    ToVec([i \in 1..(Len(sys.row_pointers) - 1) |->
              CSum([n \in 1..(sys.row_pointers[i + 1] - sys.row_pointers[i]) |->
                       CMul(sys.a[sys.row_pointers[i] + n],
                            vector[sys.column_indices[sys.row_pointers[i] + n] + 1])],
                   sys.row_pointers[i + 1] - sys.row_pointers[i])],
          Len(sys.row_pointers) - 1)

\* The outcome of a pass through the loop body: the loop state
\* [x, r, p, rho_old] after it, and whether the loop goes on ("continue"),
\* was left by a break ("break") or panicked.
Outcome(x, r, p, rho_old, out) ==
    [x |-> x, r |-> r, p |-> p, rho_old |-> rho_old, out |-> out]

\* The end of the loop body, from `let alpha_p = ...` after the second
\* sparse_matmul on.
LoopBodyTail(r_hat, st, a_p, alpha, s, a_s) ==
    CHOOSE out \in {
    IF BelowSmall(denom_omega) THEN Outcome(st.x, st.r, st.p, st.rho_old, "break")
    ELSE
    CHOOSE out \in {
CHOOSE out \in {
CHOOSE out \in {
CHOOSE out \in {
CHOOSE out \in {
CHOOSE out \in {
CHOOSE out \in {
CHOOSE out \in {
    IF BelowSmall(rho_new) \/ omega = CZero
    THEN Outcome(x1, st.r, st.p, st.rho_old, "break")
    ELSE
    CHOOSE out \in {
CHOOSE out \in {
CHOOSE out \in {
CHOOSE out \in {
    Outcome(x1, r_new, vec_add(r_new, beta_term), rho_new, "continue")
    : beta_term \in {vec_mul(p_minus, beta)}} : TRUE
    : p_minus \in {vec_sub(st.p, omega_a_p)}} : TRUE
    : omega_a_p \in {vec_mul(a_p, omega)}} : TRUE
    : beta \in {CMul(CDiv(rho_new, st.rho_old), CDiv(alpha, omega))}} : TRUE
    : rho_new \in {vec_dot(r_hat, r_new)}} : TRUE
    : r_new \in {vec_sub(s, omega_a_s)}} : TRUE
    : omega_a_s \in {vec_mul(a_s, omega)}} : TRUE
    : x1 \in {vec_add_in_place(x0, omega_s)}} : TRUE
    : x0 \in {vec_add_in_place(st.x, alpha_p)}} : TRUE
    : omega_s \in {vec_mul(s, omega)}} : TRUE
    : alpha_p \in {vec_mul(st.p, alpha)}} : TRUE
    : omega \in {CDiv(vec_dot(a_s, s), denom_omega)}} : TRUE
    : denom_omega \in {vec_dot(a_s, a_s)}} : TRUE

\* One pass through the body of the loop `for _iter in 0..max_iters`, from
\* the loop state st.
LoopBody(sys, r_hat, st, tolInverse) ==
    IF ~MatmulInBounds(sys, st.p)
    THEN Outcome(st.x, st.r, st.p, st.rho_old, "IndexOutOfBounds")
    ELSE
    CHOOSE out \in {
CHOOSE out \in {
    IF BelowSmall(denom_alpha) THEN Outcome(st.x, st.r, st.p, st.rho_old, "break")
    ELSE
    CHOOSE out \in {
CHOOSE out \in {
CHOOSE out \in {
    IF NormBelow(s, tolInverse)
    THEN Outcome(vec_add_in_place(st.x, vec_mul(st.p, alpha)),
                 st.r, st.p, st.rho_old, "break")
    ELSE IF ~MatmulInBounds(sys, s)
    THEN Outcome(st.x, st.r, st.p, st.rho_old, "IndexOutOfBounds")
    ELSE
    CHOOSE out \in {
    LoopBodyTail(r_hat, st, a_p, alpha, s, a_s)
    : a_s \in {sparse_matmul(sys, s)}} : TRUE
    : s \in {vec_sub(st.r, alpha_a_p)}} : TRUE
    : alpha_a_p \in {vec_mul(a_p, alpha)}} : TRUE
    : alpha \in {CDiv(st.rho_old, denom_alpha)}} : TRUE
    : denom_alpha \in {vec_dot(r_hat, a_p)}} : TRUE
    : a_p \in {sparse_matmul(sys, st.p)}} : TRUE

\* The loop: at most max_iters passes.  iters counts the passes begun.
RECURSIVE Loop(_, _, _, _, _, _)
Loop(sys, r_hat, st, iter, max_iters, tolInverse) ==
    IF iter >= max_iters THEN [x |-> st.x, iters |-> iter, panic |-> "none"]
    ELSE CHOOSE out \in {
             IF next.out = "continue"
             THEN Loop(sys, r_hat, next, iter + 1, max_iters, tolInverse)
             ELSE [x |-> next.x, iters |-> iter + 1,
                   panic |-> IF next.out = "break" THEN "none" ELSE next.out]
             : next \in {LoopBody(sys, r_hat, st, tolInverse)}} : TRUE

\* solve(values, column_indices, row_pointers, x, b, max_iters, tol): the
\* returned x, the number of loop passes and the panic, if any.
solve(sys, x, b, max_iters, tolInverse) ==
    IF ~MatmulInBounds(sys, x)
    THEN [x |-> x, iters |-> 0, panic |-> "IndexOutOfBounds"]
    ELSE CHOOSE out \in {
             Loop(sys, r, Outcome(x, r, r, vec_dot(r, r), "continue"),
                  0, max_iters, tolInverse)
             : r \in {vec_sub(b, sparse_matmul(sys, x))}} : TRUE

\* LinearEquations::solve, with the limits as parameters.
LinearEquations_solve(sys, max_iters, tolInverse) ==
    CHOOSE out \in {
        [le |-> IF res.panic = "none" THEN [sys EXCEPT !.x = res.x] ELSE sys,
         panic |-> res.panic,
         iters |-> res.iters]
        : res \in {solve(sys, sys.x, sys.b, max_iters, tolInverse)}} : TRUE

(***************************************************************************)
(* SpecSolve: a system is built from some coordinates and filled by add_a  *)
(* and set_b, then solved, again and again from the x of the solve before. *)
(***************************************************************************)
\* The values add_a and set_b have left in a and b.
AValues == {CZero, COne, CReal(2)}
BValues == {CZero, COne}
\* The limits solve is called with.
IterLimits == 0..MaxIters
TolInverses == {1, DefaultTolInverse}

FilledSystems(coords) ==
    LET sys == from_coordinates(coords)
    IN  {[sys EXCEPT !.a = av, !.b = bv] :
            av \in [DOMAIN sys.a -> AValues], bv \in [DOMAIN sys.b -> BValues]}

SolveInit ==
    /\ leCoords \in CoordinateLists
    /\ le \in FilledSystems(leCoords)
    /\ leCall = NoCall
    /\ lePanic = "none"
    /\ leOps = 0

LESolve ==
    /\ LECanStep
    /\ \E max_iters \in IterLimits, tolInverse \in TolInverses :
          \E r \in {LinearEquations_solve(le, max_iters, tolInverse)} :
              LEStep([op |-> "solve", max_iters |-> max_iters,
                      tolInverse |-> tolInverse, iters |-> r.iters], r)

SolveNext == LESolve

InitSolve == SolveInit /\ NumIdle /\ CirIdle /\ CBIdle /\ SIIdle

SpecSolve == InitSolve /\ [][SolveNext]_vars

\* Every entry of the vector is zero.
AllZero(v) == \A k \in DOMAIN v : v[k] = CZero

\* C12: for any matrix values a, solve() with b = 0 and the warm start x = 0
\* returns x = 0.
C12_ZeroRhsZeroSolution ==
    [][(/\ leOps' = leOps + 1
        /\ leCall'.op = "solve"
        /\ AllZero(le.b)
        /\ AllZero(le.x))
          => (/\ lePanic' = "none"
              /\ le'.x = le.x)]_leVars

\* C13: for every input (a, x, b, max_iters, tol), solve ends after at most
\* max_iters passes of its loop and returns a vector x of the length of the
\* warm start, without signalling an error when the tolerance was not reached.
C13_SolveTerminatesBestEffort ==
    [][(/\ leOps' = leOps + 1
        /\ leCall'.op = "solve")
          => (/\ lePanic' = "none"
              /\ leCall'.iters <= leCall'.max_iters
              /\ Len(le'.x) = Len(le.x))]_leVars

(***************************************************************************)
(* SpecBuffer: a store is created for a component type, then components    *)
(* are pushed and the store is iterated, until an operation panics.        *)
(***************************************************************************)
CBInit ==
    /\ \E type \in BufferTypes, aligned \in BOOLEAN :
          cb = ComponentBuffer_new(type, aligned)
    /\ cbCall = NoCall
    /\ cbPanic = "none"
    /\ cbOps = 0

CBStep(call, r) ==
    /\ cb' = r.cb
    /\ cbPanic' = r.panic
    /\ cbCall' = [call EXCEPT !.items = r.items]
    /\ cbOps' = cbOps + 1
    /\ UNCHANGED <<leVars, numVars, cirVars, siVars>>

CBCanStep == cbPanic = "none" /\ cbOps < MaxOps

CBPush ==
    /\ CBCanStep
    /\ \E type \in BufferTypes, component \in ComponentValues, aligned \in BOOLEAN :
          CBStep([op |-> "push", type |-> type, items |-> <<>>],
                 ComponentBuffer_push(cb, type, component, aligned))

CBIter ==
    /\ CBCanStep
    /\ \E type \in BufferTypes :
          CBStep([op |-> "iter", type |-> type, items |-> <<>>],
                 ComponentIterator(cb, type))

CBIterMut ==
    /\ CBCanStep
    /\ \E type \in BufferTypes, component \in ComponentValues, crash \in BOOLEAN :
          CBStep([op |-> "iter_mut", type |-> type, items |-> <<>>],
                 ComponentIteratorMut(cb, type, component, crash))

CBNext == CBPush \/ CBIter \/ CBIterMut

InitBuffer == CBInit /\ LEIdle /\ NumIdle /\ CirIdle /\ SIIdle

SpecBuffer == InitBuffer /\ [][CBNext]_vars

\* C14: iterating a store with a requested component type other than the type
\* the store was created for is a hard error (TypeMismatch); it never yields
\* an empty or a partial sequence.
C14_TypeMismatchIsHardError ==
    [][(/\ cbOps' = cbOps + 1
        /\ cbCall'.op \in {"iter", "iter_mut"}
        /\ cbCall'.type # cb.type_id)
          => cbPanic' = "TypeMismatch"]_cbVars

\* C15: for every component type C, with a zero-sized or a non-zero-sized
\* state, after n >= 0 pushes of C into a store created for C, iter::<C>() and
\* iter_mut::<C>() each yield exactly the n (component, state) pairs pushed, in
\* push order, without failing.  (Stated for a buffer whose allocation is
\* aligned for C.)
C15_IterationYieldsPushed ==
    [][(/\ cbOps' = cbOps + 1
        /\ cbCall'.op \in {"iter", "iter_mut"}
        /\ cbCall'.type = cb.type_id
        /\ cb.aligned
        /\ \A k \in DOMAIN cb.records : cb.records[k].pushed_as = cb.type_id)
          => (/\ cbPanic' = "none"
              /\ cbCall'.items = ItemsOf(cb))]_cbVars

(***************************************************************************)
(* The sparsity pattern a component type declares, and the coordinates its *)
(* stamp writes.                                                           *)
(***************************************************************************)
\* const ACTIVE_TERMINALS: &[(usize, usize)] = &[(0, 0)] of the trait; no
\* component type overrides it.
ACTIVE_TERMINALS(type) == {<<0, 0>>}

\* The coordinates (terminals[i], terminals[j]) for (i, j) in the type's
\* ACTIVE_TERMINALS that name terminals of the type.
DeclaredCoordinates(type, terminals) ==
    {<<terminals[ij[1] + 1], terminals[ij[2] + 1]>> :
        ij \in {d \in ACTIVE_TERMINALS(type) :
                    d[1] < Len(terminals) /\ d[2] < Len(terminals)}}

\* The record the stamp loop is about to stamp.
StampedType == Values[pos.vi]
StampedRecord ==
    circuit[StampedType].buffer[(pos.offset \div total_size(circuit[StampedType])) + 1]

\* C16: every coefficient a component's stamp adds to A is at a coordinate
\* (terminals[i], terminals[j]) with (i, j) in its type's ACTIVE_TERMINALS:
\* every entry of A that a stamp leaves changed and non-zero is at such a
\* coordinate.
C16_StampsOnlyActiveTerminals ==
    [][(pc = "stamp" /\ panic' = "none")
          => \A r \in 1..net.dim, c \in 1..net.dim :
                (/\ net'.jacobian[r][c] # net.jacobian[r][c]
                 /\ net'.jacobian[r][c] # CZero)
                    => <<r - 1, c - 1>> \in
                          DeclaredCoordinates(StampedType, StampedRecord.terminals)]_cirVars

(***************************************************************************)
(* The coordinates reserved in the system the driver stamps into: main     *)
(* allocates Net::new(3) before the first tick, and Circuit::put_raw       *)
(* reserves nothing.                                                       *)
(***************************************************************************)
ReservedCoordinates == (0..(net.dim - 1)) \X (0..(net.dim - 1))

\* The coordinates the stamp of the placed component c writes: the rows and
\* columns of its terminals.
StampCoordinates(c) ==
    {<<RecordOf(c).terminals[i], RecordOf(c).terminals[j]>> :
        i \in DOMAIN RecordOf(c).terminals, j \in DOMAIN RecordOf(c).terminals}

\* C17: after any sequence of placements, every coordinate a placed component
\* stamps is reserved in the system before the first tick, and no tick fails
\* on a write to a coordinate that was not reserved.
C17_StampedCoordinatesReserved ==
    /\ (pc # "build" /\ panic \in {"none", "IndexOutOfBounds"})
          => \A c \in Placed : StampCoordinates(c) \subseteq ReservedCoordinates
    /\ panic # "IndexOutOfBounds"

(***************************************************************************)
(* Probes: the parameter query of a component, src/src/component, and the  *)
(* lookup of a named component's value, Circuit::describe_component.       *)
(***************************************************************************)
\* Option<c64>.
Some(v) == [some |-> TRUE, value |-> v]
None == [some |-> FALSE]

Resistor_parameter(n, this, terminals, state, parameter) ==
    LET r == C(this.resistance_ohm, RZero)
        v == Net_get_voltage_across(n, terminals[1], terminals[2])
    IN  CASE parameter = "R" -> Some(r)
          [] parameter = "V" -> Some(v)
          [] parameter = "I" -> Some(CDiv(v, r))
          [] parameter = "P" -> Some(CDiv(CMul(v, v), r))
          [] OTHER -> None

\* this.describe(net, terminals, state) of describe_fn: the (name, value)
\* pairs of a component; the trait's default is vec![].  A read of a voltage
\* at a node the net does not hold is an index out of bounds.
describe(type, n, this, terminals, state) ==
    IF type \in {"Resistor", "Capacitor"}
          /\ \E t \in DOMAIN terminals : terminals[t] >= n.dim
    THEN [panic |-> "IndexOutOfBounds", pairs |-> <<>>]
    ELSE [panic |-> "none",
          pairs |->
            CASE type = "Resistor" ->
                    LET r == C(this.resistance_ohm, RZero)
                        v == Net_get_voltage_across(n, terminals[1], terminals[2])
                    IN  << <<"R", r>>, <<"V", v>>, <<"I", CDiv(v, r)>> >>
              [] type = "DC1Source" ->
                    << <<"V", C(this.voltage_volt, RZero)>> >>
              [] type = "Capacitor" ->
                    LET v == Net_get_voltage_across(n, terminals[1], terminals[2])
                        g_eq == CDiv(C(this.capacitance_f, RZero), COne)
                        i == CMul(g_eq, C(state.v_old_re, state.v_old_im))
                    IN  << <<"C", C(this.capacitance_f, RZero)>>, <<"V", v>>, <<"I", i>> >>
              [] OTHER -> <<>>]

\* `for (k, v) in described { if k == value { return v; } }`.
RECURSIVE FindPair(_, _)
FindPair(described, value) ==
    IF described = <<>> THEN None
    ELSE IF Head(described)[1] = value THEN Some(Head(described)[2])
    ELSE FindPair(Tail(described), value)

\* The loops of describe_component from record k of the vi-th type on, the
\* types taken in the order the HashMap iterates them.
RECURSIVE DescribeFrom(_, _, _, _, _, _, _)
DescribeFrom(circ, order, n, name, value, vi, k) ==
    IF vi > Len(order) THEN [panic |-> "none", value |-> CZero]
    ELSE LET type == order[vi]
             components == circ[type]
             size == total_size(components)
         IN  IF size = 0 \/ k > Len(components.buffer)
             THEN DescribeFrom(circ, order, n, name, value, vi + 1, 1)
             ELSE IF ~BytesAligned(type, (k - 1) * size)
             THEN [panic |-> "PodCastError", value |-> CZero]
             ELSE LET record == components.buffer[k]
                      described == describe(type, n, record.component,
                                            record.terminals, record.state)
                      found == IF components.names[k] = name
                               THEN FindPair(described.pairs, value)
                               ELSE None
                  IN  IF described.panic # "none"
                      THEN [panic |-> described.panic, value |-> CZero]
                      ELSE IF found.some
                      THEN [panic |-> "none", value |-> found.value]
                      ELSE DescribeFrom(circ, order, n, name, value, vi, k + 1)

\* Circuit::describe_component(net, name, value) -> c64.
describe_component(circ, order, n, name, value) ==
    DescribeFrom(circ, order, n, name, value, 1, 1)

\* The component names and parameter names the probes of the model ask for:
\* a resistor of the menu and a name that is never placed, a parameter the
\* resistor publishes and one that no component publishes.
ProbeNames == {"R1", "nope"}
ProbeParameters == {"V", "zzz"}

\* The names of the pairs a placed component describes (they do not depend on
\* the net).
DescribedNames(c) ==
    LET pairs == describe(c[1], Net_new(NetDim), RecordOf(c).component,
                          [t \in DOMAIN RecordOf(c).terminals |-> 0],
                          RecordOf(c).state).pairs
    IN  {pairs[i][1] : i \in DOMAIN pairs}

\* A component named `name` is placed and publishes `value`.
Published(name, value) ==
    \E c \in Placed : circuit[c[1]].names[c[2]] = name /\ value \in DescribedNames(c)

\* C18: a probe for a parameter name the named component does not publish, or
\* for a component name that was never placed, returns not-present (None), a
\* result that is no complex value, and is not an error.
C18_UnknownProbeNotPresent ==
    (pc \in {"reset", "solve", "done"})
        => \A name \in ProbeNames, value \in ProbeParameters :
              ~Published(name, value)
                  => \E r \in {describe_component(circuit, hashOrder, net, name, value)} :
                        r.panic = "none" /\ r.value = None

(***************************************************************************)
(* The worked example of two parallel resistors.                           *)
(***************************************************************************)
\* The builder numbers gnd 0 and a 1 in ParallelResistors.
NodeGnd == 0
NodeA == 1

\* The first tick of the driver has ended: its solve returned, or the program
\* panicked before.
FirstStepOver == tick >= 1 \/ pc = "panic"

\* C19: for the circuit ground at gnd, DC source 5 V at a, R = 500 between a
\* and gnd, R = 1000 between a and gnd, after one step x[a] = 5 + 0j and
\* x[gnd] = 0 + 0j, and the probes of I on the two resistors return 10 mA and
\* 5 mA.
C19_ParallelResistors ==
    (commands = ParallelResistors /\ FirstStepOver)
        => /\ panic = "none"
           /\ net.voltages[NodeA + 1] = CReal(5)
           /\ net.voltages[NodeGnd + 1] = CZero
           /\ describe_component(circuit, hashOrder, net, "RA", "I")
                 = [panic |-> "none", value |-> C(<<1, 100>>, RZero)]
           /\ describe_component(circuit, hashOrder, net, "RB", "I")
                 = [panic |-> "none", value |-> C(<<1, 200>>, RZero)]

(***************************************************************************)
(* The numbering of the node names by the builder.                         *)
(***************************************************************************)
\* The terminal names of the commands, in the order build reads them.
RECURSIVE TerminalNames(_)
TerminalNames(cmds) ==
    IF cmds = <<>> THEN <<>>
    ELSE Head(cmds).terminals \o TerminalNames(Tail(cmds))

\* The number of distinct names among the first k names of the sequence.
DistinctBefore(names, k) == Cardinality({names[i] : i \in 1..k})

\* The index first-seen-first-numbered gives the name t: the number of
\* distinct names read before its first occurrence.
FirstSeenIndex(names, t) ==
    LET first == CHOOSE i \in DOMAIN names :
                    names[i] = t /\ \A j \in 1..(i - 1) : names[j] # t
    IN  DistinctBefore(names, first - 1)

\* The terminals stored with the placed component of the given name.
TerminalsOf(name) ==
    LET c == CHOOSE d \in Placed : circuit[d[1]].names[d[2]] = name
    IN  RecordOf(c).terminals

\* The indices stored with the placed components.
StoredIndices ==
    UNION {{RecordOf(c).terminals[t] : t \in DOMAIN RecordOf(c).terminals} : c \in Placed}

\* C20: the builder numbers node names first-seen-first-numbered: the k-th
\* distinct terminal name in order of first appearance gets index k - 1, every
\* occurrence of a name gets the index of the name, and the indices are
\* exactly 0 .. n - 1 for n distinct names.
C20_FirstSeenFirstNumbered ==
    (pc \notin {"build", "idle"} /\ panic \notin {"UnknownComponent", "TerminalCountMismatch"})
        => /\ \A i \in DOMAIN commands :
                /\ \E d \in Placed : circuit[d[1]].names[d[2]] = commands[i].name
                /\ TerminalsOf(commands[i].name)
                      = [t \in DOMAIN commands[i].terminals |->
                            FirstSeenIndex(TerminalNames(commands), commands[i].terminals[t])]
           /\ StoredIndices
                 = 0..(DistinctBefore(TerminalNames(commands),
                                      Len(TerminalNames(commands))) - 1)

\* A circuit has been built from commands that name four nodes, one of them
\* (gnd) in several commands and after other names were first seen.
C20_Witness ==
    /\ pc = "reset"
    /\ Len(commands) >= 3
    /\ StoredIndices = 0..3
    /\ \E i, j \in DOMAIN commands :
          /\ i < j
          /\ \E t \in DOMAIN commands[i].terminals, u \in DOMAIN commands[j].terminals :
                /\ commands[i].terminals[t] = commands[j].terminals[u]
                /\ FirstSeenIndex(TerminalNames(commands), commands[j].terminals[u]) < 3
                /\ TerminalsOf(commands[j].name)[u] = TerminalsOf(commands[i].name)[t]

(***************************************************************************)
(* parse_si_number, src/src/si.rs.  A string is a sequence of characters;  *)
(* a number v * 10^e is the pair of the rational v and the exponent e (the *)
(* multipliers of SI_PREFIXES are powers of ten).                          *)
(***************************************************************************)
\* The strings given to the parser have at most MaxLen characters.
MaxLen == 3

\* SI_PREFIXES: the exponent of the multiplier of each prefix, in the order of
\* the table.  The prefix "" is never equal to a character.
SI_PREFIXES ==
    << <<30, "Q">>, <<27, "R">>, <<24, "Y">>, <<21, "Z">>, <<18, "E">>,
       <<15, "P">>, <<12, "T">>, <<9, "G">>, <<6, "M">>, <<3, "k">>,
       <<0, "">>, <<-3, "m">>, <<-6, "µ">>, <<-6, "u">>, <<-9, "n">>,
       <<-12, "p">>, <<-15, "f">>, <<-18, "a">>, <<-21, "z">> >>

\* The number of bytes of a character in UTF-8: µ (U+00B5) takes two.
Utf8Len(ch) == IF ch = "µ" THEN 2 ELSE 1

Digits == {"0", "1", "2", "3", "4", "5", "6", "7", "8", "9"}
DigitValue(ch) ==
    CASE ch = "0" -> 0 [] ch = "1" -> 1 [] ch = "2" -> 2 [] ch = "3" -> 3
      [] ch = "4" -> 4 [] ch = "5" -> 5 [] ch = "6" -> 6 [] ch = "7" -> 7
      [] ch = "8" -> 8 [] ch = "9" -> 9

\* str::trim: the whitespace at both ends is dropped.
RECURSIVE TrimStart(_)
TrimStart(s) == IF s # <<>> /\ Head(s) = " " THEN TrimStart(Tail(s)) ELSE s
RECURSIVE TrimEnd(_)
TrimEnd(s) ==
    IF s # <<>> /\ s[Len(s)] = " " THEN TrimEnd(SubSeq(s, 1, Len(s) - 1)) ELSE s
trim(s) == TrimEnd(TrimStart(s))

\* The value of a string of digits read left to right after acc.
RECURSIVE DigitsValue(_, _)
DigitsValue(s, acc) ==
    IF s = <<>> THEN acc ELSE DigitsValue(Tail(s), 10 * acc + DigitValue(Head(s)))

RECURSIVE Pow10(_)
Pow10(n) == IF n = 0 THEN 1 ELSE 10 * Pow10(n - 1)

\* str::parse::<f64> on the strings of the model (digits, one optional point,
\* no sign and no exponent): digits with at most one point and at least one
\* digit parse to their decimal value, anything else is an error.
parse_f64(s) ==
    LET points == {i \in DOMAIN s : s[i] = "."}
        digits == {i \in DOMAIN s : s[i] \in Digits}
    IN  IF digits = {} \/ Cardinality(points) > 1
              \/ digits \cup points # DOMAIN s
        THEN None
        ELSE IF points = {}
        THEN Some(RInt(DigitsValue(s, 0)))
        ELSE LET dot == CHOOSE i \in points : TRUE
                 whole == SubSeq(s, 1, dot - 1)
                 frac == SubSeq(s, dot + 1, Len(s))
             IN  Some(RNorm(DigitsValue(whole \o frac, 0), Pow10(Len(frac))))

\* SI_PREFIXES.iter().find(|(_, pre)| pre == &last_char.to_string()), from
\* entry k of the table on.
RECURSIVE FindPrefix(_, _)
FindPrefix(last_char, k) ==
    IF k > Len(SI_PREFIXES) THEN None
    ELSE IF SI_PREFIXES[k][2] = last_char THEN Some(SI_PREFIXES[k][1])
    ELSE FindPrefix(last_char, k + 1)

\* parse_si_number(s) -> Option<f64>: None, Some of v * 10^exp, or the panic
\* of &s[..s.len() - 1] when s.len() - 1 is inside the last character.
parse_si_number(input) ==
    LET s == trim(input)
    IN  IF s = <<>> THEN [panic |-> "none", some |-> FALSE]
        ELSE LET last_char == s[Len(s)]
                 found == FindPrefix(last_char, 1)
             IN  IF found.some /\ Utf8Len(last_char) # 1
                 THEN [panic |-> "CharBoundary", some |-> FALSE]
                 ELSE LET num_str == IF found.some THEN SubSeq(s, 1, Len(s) - 1) ELSE s
                          exp == IF found.some THEN found.value ELSE 0
                          v == parse_f64(num_str)
                      IN  IF v.some
                          THEN [panic |-> "none", some |-> TRUE,
                                value |-> v.value, exp |-> exp]
                          ELSE [panic |-> "none", some |-> FALSE]

(***************************************************************************)
(* SpecSI: parse_si_number is called once on a string.                     *)
(***************************************************************************)
Characters == {"1", "5", ".", " ", "p", "n", "µ", "u", "m", "k", "K", "M", "G", "T"}

SIInit ==
    /\ siInput \in UNION {[1..n -> Characters] : n \in 0..MaxLen}
    /\ siResult = NoCall
    /\ siDone = FALSE

SIParse ==
    /\ ~siDone
    /\ siResult' = parse_si_number(siInput)
    /\ siDone' = TRUE
    /\ UNCHANGED siInput
    /\ UNCHANGED <<leVars, numVars, cirVars, cbVars>>

SINext == SIParse

InitSI == SIInit /\ LEIdle /\ NumIdle /\ CirIdle /\ CBIdle

SpecSI == InitSI /\ [][SINext]_vars

\* The exponent of ten the SI suffixes stand for: p, n, µ, u, m, k, K, M, G, T
\* are 10^-12, 10^-9, 10^-6, 10^-6, 10^-3, 10^3, 10^3, 10^6, 10^9, 10^12.
Suffixes == {"p", "n", "µ", "u", "m", "k", "K", "M", "G", "T"}
SuffixExponent(ch) ==
    CASE ch = "p" -> -12 [] ch = "n" -> -9 [] ch \in {"µ", "u"} -> -6
      [] ch = "m" -> -3 [] ch \in {"k", "K"} -> 3 [] ch = "M" -> 6
      [] ch = "G" -> 9 [] ch = "T" -> 12

\* C21: a decimal number followed by one of the SI suffixes p, n, µ, u, m, k,
\* K, M, G, T parses to the number multiplied by the suffix's power of ten,
\* and a decimal number without suffix parses to itself.
C21_SISuffixes ==
    siDone =>
        /\ parse_f64(siInput).some
              => siResult = [panic |-> "none", some |-> TRUE,
                             value |-> parse_f64(siInput).value, exp |-> 0]
        /\ (/\ Len(siInput) >= 2
            /\ siInput[Len(siInput)] \in Suffixes
            /\ parse_f64(SubSeq(siInput, 1, Len(siInput) - 1)).some)
              => siResult = [panic |-> "none", some |-> TRUE,
                             value |-> parse_f64(SubSeq(siInput, 1, Len(siInput) - 1)).value,
                             exp |-> SuffixExponent(siInput[Len(siInput)])]

(***************************************************************************)
(* The order of the types within a priority level.                         *)
(***************************************************************************)
\* The position in the command list of the first component of the type: the
\* command whose put_raw inserts the type's entry into the HashMap.
RegistrationIndex(type) ==
    CHOOSE i \in DOMAIN commands :
        /\ ComponentOf(commands[i]).type = type
        /\ \A j \in 1..(i - 1) : ComponentOf(commands[j]).type # type

\* C22: within one priority level, the component types stamp in the order in
\* which the types were first placed: of two stamps of one tick by components
\* of different types with the same priority, the earlier is by the type
\* registered first.
C22_TiesInRegistrationOrder ==
    \A i, j \in DOMAIN stampLog :
        (/\ i < j
         /\ stampLog[i][1] # stampLog[j][1]
         /\ circuit[stampLog[i][1]].priority = circuit[stampLog[j][1]].priority)
            => RegistrationIndex(stampLog[i][1]) < RegistrationIndex(stampLog[j][1])

(***************************************************************************)
(* The state of a component.                                               *)
(***************************************************************************)
\* Every field of the state is zero; the state () has no field.
IsZeroState(type, state) ==
    CASE type = "AC1Source" -> state = RZero
      [] type \in {"Capacitor", "Inductor"} -> \A f \in DOMAIN state : state[f] = RZero
      [] OTHER -> state = <<>>

\* The index of the record the loop of Circuit::stamp is at.
StampedIndex == (pos.offset \div total_size(circuit[StampedType])) + 1

\* C23: a component's state starts at its zero default when the component is
\* placed and is changed only by the post-stamp of that same component: the
\* stamps, the solve and the post-stamps of the other components leave it
\* unchanged.
C23_StateOwnedByPostStamp ==
    [][/\ pc = "build"
            => \A type \in DOMAIN circuit' : \A k \in DOMAIN circuit'[type].buffer :
                  IsZeroState(type, circuit'[type].buffer[k].state)
       /\ pc # "build"
            => \A type \in DOMAIN circuit : \A k \in DOMAIN circuit[type].buffer :
                  circuit'[type].buffer[k].state # circuit[type].buffer[k].state
                      => (pc = "post_stamp" /\ type = StampedType /\ k = StampedIndex)]_cirVars

\* A post-stamp has changed the state of a component while another component
\* with a state of its own is placed.
C23_Witness ==
    /\ postLog # <<>>
    /\ \E c, d \in Placed :
          /\ c # d
          /\ ~IsZeroState(c[1], RecordOf(c).state)
          /\ TypeInfo[d[1]].state_size > 0

\* C24: voltage_across(from, to) returns x[from] - x[to] for every pair of
\* nodes, hence voltage_across(a, b) = -voltage_across(b, a).
C24_VoltageAcrossFromMinusTo ==
    \A from \in 0..(net.dim - 1), to \in 0..(net.dim - 1) :
        /\ Net_get_voltage_across(net, from, to)
              = CSub(net.voltages[from + 1], net.voltages[to + 1])
        /\ Net_get_voltage_across(net, from, to)
              = CNeg(Net_get_voltage_across(net, to, from))

(***************************************************************************)
(* The companion model of the capacitor.                                   *)
(***************************************************************************)
\* The history current the claim gives the capacitor at the stamp of the
\* current tick: zero in the first tick, afterwards (C / dt) times the voltage
\* x[n1] - x[n2] of the last solve, which net.voltages still holds.
ExpectedHistoryCurrent(record) ==
    IF tick = 0 THEN CZero
    ELSE CMul(C(RDiv(record.component.capacitance_f, DT), RZero),
              CSub(net.voltages[record.terminals[1] + 1],
                   net.voltages[record.terminals[2] + 1]))

\* C25: for a capacitor between n1 and n2, the history current stamped into b
\* in tick k + 1 is (C / dt) times the voltage x[n1] - x[n2] solved in tick k,
\* added at n1 and subtracted at n2, and it is zero in the first tick.
C25_CapacitorHistoryCurrent ==
    [][(/\ pc = "stamp"
        /\ StampedType = "Capacitor"
        /\ panic' = "none"
        /\ StampedRecord.terminals[1] # StampedRecord.terminals[2])
          => /\ net'.currents[StampedRecord.terminals[1] + 1]
                   = CAdd(net.currents[StampedRecord.terminals[1] + 1],
                          ExpectedHistoryCurrent(StampedRecord))
             /\ net'.currents[StampedRecord.terminals[2] + 1]
                   = CSub(net.currents[StampedRecord.terminals[2] + 1],
                          ExpectedHistoryCurrent(StampedRecord))]_cirVars

(***************************************************************************)
(* The parameter queries of the component types, src/src/component.        *)
(***************************************************************************)
\* const PARAMETERS of each type; the trait's default is &[].
PARAMETERS(type) ==
    CASE type = "Resistor"  -> {"R", "V", "I", "P"}
      [] type = "Capacitor" -> {"C", "V", "I", "P"}
      [] type = "Inductor"  -> {"L", "V", "I", "P"}
      [] type = "DC1Source" -> {"V", "P"}
      [] type = "AC1Source" -> {"V", "P", "f", "phi", "t"}
      [] OTHER -> {}

Capacitor_parameter(n, this, terminals, state, parameter) ==
    LET v == Net_get_voltage_across(n, terminals[1], terminals[2])
        v_prev == C(state.v_old_re, state.v_old_im)
        dv_per_dt == C(state.dv_per_dt_re, state.dv_per_dt_im)
        g_eq == CDiv(C(this.capacitance_f, RZero), COne)
        i == CMul(g_eq, v_prev)
    IN  CASE parameter = "C" -> Some(C(this.capacitance_f, RZero))
          [] parameter = "V" -> Some(v)
          [] parameter = "I" -> Some(i)
          [] parameter = "P" -> Some(CMul(CMul(v, i), dv_per_dt))
          [] OTHER -> None

Inductor_parameter(n, this, terminals, state, parameter) ==
    LET v == Net_get_voltage_across(n, terminals[1], terminals[2])
        i_prev == C(state.i_old_re, state.i_old_im)
    IN  CASE parameter = "L" -> Some(C(this.inductance_h, RZero))
          [] parameter = "V" -> Some(v)
          [] parameter = "I" -> Some(i_prev)
          [] parameter = "P" -> Some(CMul(v, i_prev))
          [] OTHER -> None

DC1Source_parameter(n, this, terminals, state, parameter) ==
    CASE parameter = "V" -> Some(C(this.voltage_volt, RZero))
      [] OTHER -> None

AC1Source_parameter(n, this, terminals, t, parameter) ==
    CASE parameter = "V" -> Some(C(this.amplitude_volt, RZero))
      [] parameter = "f" -> Some(C(this.frequency_hz, RZero))
      [] parameter = "phi" -> Some(C(this.phase_rad, RZero))
      [] parameter = "t" -> Some(C(t, RZero))
      [] OTHER -> None

\* The parameter query of the type; the trait's default answers None.
parameter_rule(type, n, this, terminals, state, parameter) ==
    CASE type = "Resistor"  -> Resistor_parameter(n, this, terminals, state, parameter)
      [] type = "Capacitor" -> Capacitor_parameter(n, this, terminals, state, parameter)
      [] type = "Inductor"  -> Inductor_parameter(n, this, terminals, state, parameter)
      [] type = "DC1Source" -> DC1Source_parameter(n, this, terminals, state, parameter)
      [] type = "AC1Source" -> AC1Source_parameter(n, this, terminals, state, parameter)
      [] OTHER -> None

(***************************************************************************)
(* The time state of the AC source.                                        *)
(***************************************************************************)
\* The number of post-stamps the placed component c has had: one per tick
\* solved, and before the solve of the current tick one more once its
\* post-stamp loop has passed c.
PostStampsOf(c) ==
    IF pc \in {"reset", "done"} THEN tick
    ELSE tick + (IF \E i \in DOMAIN postLog : postLog[i] = c THEN 1 ELSE 0)

ACSources == {c \in Placed : c[1] = "AC1Source"}

\* C26: an AC source's time state is 0 when it stamps in the first tick and
\* increases by exactly dt in each tick's post-stamp: the stamp of tick k uses
\* t = (k - 1) * dt, and the probe of t after k ticks returns k * dt.
C26_ACTimeAdvancesByDt ==
    [][/\ \A c \in ACSources' :
            /\ RecordOf(c)' = [RecordOf(c)' EXCEPT !.state = RMul(RInt(PostStampsOf(c)'), DT)]
            /\ pc' \in {"reset", "done"}
                  => AC1Source_parameter(net', RecordOf(c).component', RecordOf(c).terminals',
                                         RecordOf(c).state', "t")
                        = Some(C(RMul(RInt(tick'), DT), RZero))
       /\ (pc = "stamp" /\ StampedType = "AC1Source" /\ panic' = "none")
            => /\ StampedRecord.state = RMul(RInt(tick), DT)
               /\ net'.currents[StampedRecord.terminals[1] + 1]
                     = c64_polar(StampedRecord.component.amplitude_volt,
                                 RMul(StampedRecord.component.frequency_hz,
                                      RMul(RInt(tick), DT)))]_cirVars

\* Two ticks have been solved with an AC source placed: its post-stamp has
\* run twice and its time is 2 * dt.
C26_Witness ==
    /\ tick = 2
    /\ pc = "reset"
    /\ \E c \in ACSources : RecordOf(c).state = RMul(RInt(2), DT)

(***************************************************************************)
(* The capacitor's probe of its current.                                   *)
(***************************************************************************)
Capacitors == {c \in Placed : c[1] = "Capacitor"}

\* i_hist of Capacitor::stamp for the record: g_eq * v_prev with g_eq = C/dt.
StampHistoryCurrent(record) ==
    CMul(C(RDiv(record.component.capacitance_f, DT), RZero),
         C(record.state.v_old_re, record.state.v_old_im))

\* C27: the capacitor's I parameter equals g_eq * v_prev with g_eq = C/dt,
\* the history current that its stamp injects into b for the next tick.
C27_CapacitorIIsHistoryCurrent ==
    \A c \in Capacitors :
        Capacitor_parameter(net, RecordOf(c).component, RecordOf(c).terminals,
                            RecordOf(c).state, "I")
            = Some(StampHistoryCurrent(RecordOf(c)))

(***************************************************************************)
(* The visits of Circuit::stamp in one tick.                               *)
(***************************************************************************)
\* The records on which the rule of a loop of Circuit::stamp was invoked: the
\* records the loop visited, less the last one when re-typing its bytes
\* failed before the rule was called.
Invoked(log, failed) ==
    IF failed /\ log # <<>> THEN SubSeq(log, 1, Len(log) - 1) ELSE log

StampInvoked == Invoked(stampLog, panic = "PodCastError" /\ postLog = <<>>)

PostStampInvoked == Invoked(postLog, panic = "PodCastError")

\* The call of circuit.stamp of the current tick is over: it returned, or the
\* program ended in it.
StampCallOver ==
    \/ pc = "solve"
    \/ pc \in {"reset", "done"} /\ tick > 0
    \/ pc = "panic" /\ panic \notin {"UnknownComponent", "TerminalCountMismatch"}

\* C28: in every tick the stamp rule and the post-stamp rule are each invoked
\* exactly once for every placed component of every type, with the terminals
\* the component was placed with: none is skipped and none is visited twice.
C28_EachComponentOncePerTick ==
    /\ \A i, j \in DOMAIN StampInvoked : i # j => StampInvoked[i] # StampInvoked[j]
    /\ \A i, j \in DOMAIN PostStampInvoked :
          i # j => PostStampInvoked[i] # PostStampInvoked[j]
    /\ StampCallOver
          => /\ {StampInvoked[i] : i \in DOMAIN StampInvoked} = Placed
             /\ {PostStampInvoked[i] : i \in DOMAIN PostStampInvoked} = Placed
             /\ \A i \in DOMAIN commands :
                   TerminalsOf(commands[i].name)
                      = [t \in DOMAIN commands[i].terminals |->
                            FirstSeenIndex(TerminalNames(commands), commands[i].terminals[t])]

(***************************************************************************)
(* The alignment of the records of a type's byte buffer.                   *)
(***************************************************************************)
\* The offset of the k-th record of the buffer of a type: put_raw appends
\* total_size bytes per placement.
RecordOffset(type, k) == (k - 1) * total_size(circuit[type])

\* C29: for every component type and every number of placed instances, each
\* instance's record starts at an offset that is a multiple of the alignment
\* of the component struct and of its state, so re-typing the bytes during
\* stamp, post-stamp and probe never fails.
C29_RecordsAligned ==
    /\ \A c \in Placed : BytesAligned(c[1], RecordOffset(c[1], c[2]))
    /\ panic # "PodCastError"

(***************************************************************************)
(* The parameters a type lists and the parameters its query answers.       *)
(***************************************************************************)
\* The names asked: every name some type lists, and one no type lists.
QueriedNames ==
    UNION {PARAMETERS(type) : type \in DOMAIN TypeInfo} \cup {"X"}

\* C30: for every component type, every name listed in its PARAMETERS is
\* answered by its parameter query with a present value, and every name not
\* listed is answered with not-present.
C30_ListedParametersAnswered ==
    \A c \in Placed : \A name \in QueriedNames :
        parameter_rule(c[1], net, RecordOf(c).component, RecordOf(c).terminals,
                       RecordOf(c).state, name).some
            = (name \in PARAMETERS(c[1]))

=============================================================================
